---- MODULE Spec2Model ----
(***************************************************************************)
(* Incremental extraction engines of the airflow-dags repository.          *)
(*                                                                         *)
(*   GuavaClickHouseETL       src/src/etl_guava_clickhouse.py              *)
(*       offset paging (LIMIT/OFFSET) with page-size halving               *)
(*   AppleMangoOpenSearchETL  src/src/etl_applemango_opensearch.py         *)
(*       scroll paging with a per-index cap and chunked load               *)
(*                                                                         *)
(* A source object holds the rows 1..n in storage order; row i carries the *)
(* ordering value Ts(i, dup), nondecreasing in i, where dup is the number  *)
(* of rows that share one ordering value.  A destination table is the set  *)
(* of source rows it holds.                                                *)
(***************************************************************************)
EXTENDS Integers, Sequences, FiniteSets, TLC

(***************************************************************************)
(* Program constants.                                                      *)
(***************************************************************************)
DefaultBatchSize == 500
DefaultMaxRows == 100000
MinBatchSize == 100
max_consecutive_failures == 3
ScrollSize == 1000
DefaultMaxRowsPerIndex == 100000
LoadBatchSize == 10000

(***************************************************************************)
(* Bounds of the model.                                                    *)
(***************************************************************************)
SmallRows == 4
SmallCap == 2
BigRows == 230
BigCap == 150
MaxBatches == 5
SmallDocs == 3
MidDocs == 2003
MidCap == 1001
BigDocs == 10002

VARIABLES
    \* ---- GuavaClickHouseETL: constructor arguments and collaborators
    table_type,            \* timestamp_info[table_name]['type']
    batch_size,            \* self.batch_size
    max_rows,              \* self.max_rows
    src_n,                 \* rows of the source table: 1..src_n
    src_dup,               \* rows per ordering value in the source table
    target_exists,         \* the target table exists
    dest,                  \* rows held by the target table
    \* ---- GuavaClickHouseETL.run / _process_batches: locals
    pc,
    last_value,
    where_clause,
    total_rows,
    offset,
    batch_num,
    total_processed,
    consecutive_failures,
    current_batch_size,
    query_limit,           \* the LIMIT of the local variable query
    df_batch,
    \* ---- history of the run (not read by the program)
    batch_size0,           \* the batch_size the object was constructed with
    inserted,              \* rows passed to target_client.insert_df
    src_queries,           \* count and page queries issued against the source
    events,                \* kinds of failures seen in the run
    fail_streak,           \* pages in a row that ended without an extracted page
    outcome,               \* how run() ended
    source_client,         \* self.source_client: "none", "open" or "closed"
    target_client,         \* self.target_client
    \* ---- AppleMangoOpenSearchETL: constructor arguments and collaborators
    max_rows_per_index,    \* self.max_rows_per_index
    idx_n,                 \* documents of the index: 1..idx_n, by @timestamp
    idx_dup,               \* documents per @timestamp value
    os_exists,             \* the target table exists
    os_dest,               \* documents held by the target table
    \* ---- _process_single_index / _extract_from_index / _load_to_table: locals
    os_pc,
    last_timestamp,
    os_query,
    scroll_pos,            \* documents the scroll context has served
    hits,
    results,
    chunk_i,               \* i of the insert loop
    \* ---- history of the index's processing
    os_events,
    os_outcome,
    \* ---- run_all_etl / AppleMangoOpenSearchETL.run: the loop over objects
    orch_loop,             \* which loop: "run_all_etl", "indices" or "idle"
    objects,               \* the list the loop iterates
    obj_i,                 \* position of the loop in the list
    orch_pc,
    \* ---- history of the loop
    processed,             \* objects whose processing was called, in call order
    raised,                \* positions of the objects whose processing raised
    \* ---- the target table of _load_to_table, as DESCRIBE TABLE shows it
    tbl_exists,
    tbl_columns,           \* sequence of [name, type]
    \* ---- _load_to_table as called by each job: locals
    job_pc,
    job_df,                \* data: column name -> dtype
    job_missing,           \* missing_columns the for loop has still to visit
    \* ---- history of each job's calls
    job_quota,             \* calls of _load_to_table the job makes
    job_loads,             \* calls started
    job_error,             \* the exception that left the current or last call
    job_attempted,         \* columns the call issued an ALTER for
    job_failed,            \* columns whose ALTER failed for another reason
    job_exists,            \* columns whose ALTER was answered "already exists"
    prev_df,               \* data of the job's previous call
    prev_columns,          \* tbl_columns when the previous call ended
    prev_clean,            \* reconciliation of the previous call met no failure
    \* ---- _build_where_clause called on its own
    lit_pc,
    lit_zone,              \* UTC offset, in hours, of the servers and the process
    lit_type,              \* timestamp_type
    lit_value,             \* last_value
    lit_clause,            \* the clause returned
    \* ---- the target table guava_<table_name> of GuavaMariaDBETL.load
    mdb_exists,
    mdb_rows,              \* primary-key value -> rows of that key in the table
    \* ---- GuavaMariaDBETL.load as called by each job
    load_pc,
    load_data,             \* data: the primary-key values of its rows
    load_quota,            \* calls of load the job makes
    load_calls,            \* calls started
    load_cmds,             \* commands the call has issued to the target
    load_error,            \* the command whose exception left the call
    load_count,            \* total_count
    load_prev,             \* the job's call before: its data and what it left
    \* ---- AppleMangoOpenSearchETL.transform called on its own
    tf_pc,
    tf_data,               \* data: sequence of columns [name, dtype, cells]
    tf_once,               \* transform(data)
    tf_twice,              \* transform(transform(data))
    \* ---- AppleMangoOpenSearchETL.run over indices of one target table
    sh_docs,               \* index -> [n, shift]: its documents 1..n
    sh_cap,                \* self.max_rows_per_index
    sh_exists,             \* the target table exists
    sh_table,              \* rows of the target table: << index, document >>
    sh_i,                  \* position of the loop over indices
    sh_step,               \* "idle", "extract", "load", "done"
    sh_data,               \* data: the documents extracted from the index
    sh_query,              \* index -> the query its extraction sent
    sh_before,             \* index -> the target rows when it was extracted
    \* ---- GuavaClickHouseETL.run called again on the same table
    run_no,                \* the run in progress
    run_dest0,             \* rows of the target when the run started
    run_order,             \* the order the source reads in during the run
    src_first              \* ordering value of the first row of the source

gvars == << table_type, batch_size, max_rows, src_n, src_dup, target_exists, dest,
            pc, last_value, where_clause, total_rows, offset, batch_num,
            total_processed, consecutive_failures, current_batch_size,
            query_limit, df_batch, batch_size0, inserted, src_queries,
            events, fail_streak, outcome, source_client, target_client >>

osvars == << max_rows_per_index, idx_n, idx_dup, os_exists, os_dest, os_pc,
             last_timestamp, os_query, scroll_pos, hits, results, chunk_i,
             os_events, os_outcome >>

ovars == << orch_loop, objects, obj_i, orch_pc, processed, raised >>

svars == << tbl_exists, tbl_columns, job_pc, job_df, job_missing, job_quota,
            job_loads, job_error, job_attempted, job_failed, job_exists,
            prev_df, prev_columns, prev_clean >>

lvars == << lit_pc, lit_zone, lit_type, lit_value, lit_clause >>

mvars == << mdb_exists, mdb_rows, load_pc, load_data, load_quota, load_calls,
            load_cmds, load_error, load_count, load_prev >>

tvars == << tf_pc, tf_data, tf_once, tf_twice >>

hvars == << sh_docs, sh_cap, sh_exists, sh_table, sh_i, sh_step, sh_data,
            sh_query, sh_before >>

rvars == << run_no, run_dest0, run_order, src_first >>

uvars == << lvars, mvars, tvars, hvars, rvars >>

vars == << gvars, osvars, ovars, svars, uvars >>

(***************************************************************************)
(* Values exchanged with the databases.  kind "none" is Python's None,     *)
(* "int" an integer, "str" a timestamp string denoting instant v in one of *)
(* the forms below, "obj" any other object.                                *)
(***************************************************************************)
Val(k, v, f) == [kind |-> k, v |-> v, form |-> f]
None == Val("none", 0, "-")
IntVal(n) == Val("int", n, "-")
StrVal(n, f) == Val("str", n, f)
ObjVal == Val("obj", 0, "-")

\* "plain": 'YYYY-MM-DD HH:MM:SS.fff' as toString() prints it; "iso": with the
\* 'T' separator and a timezone suffix; "malformed": no match of the pattern;
\* "baddate": matches the pattern but is no calendar date.
StrForms == {"plain", "iso", "malformed", "baddate"}

\* Python truthiness of a value (if last_ts:, if not last_value:)
Truthy(x) == /\ x.kind # "none"
             /\ ~(x.kind = "int" /\ x.v = 0)

Min(a, b) == IF a < b THEN a ELSE b
Max(a, b) == IF a > b THEN a ELSE b

\* Ordering value of source row i when dup rows share one value; the values
\* start at src_first.
Ts(i, dup) == (i + dup - 1) \div dup - 1 + src_first

\* The greatest element of a non-empty set of naturals, by bisection.
RECURSIVE UpperBound(_, _)
UpperBound(S, h) == IF \E x \in S : x > h THEN UpperBound(S, 2 * h) ELSE h

RECURSIVE MaxIn(_, _, _)
MaxIn(S, lo, hi) ==
    IF lo >= hi THEN lo
    ELSE LET mid == (lo + hi) \div 2
         IN  IF \E x \in S : x > mid THEN MaxIn(S, mid + 1, hi)
                                       ELSE MaxIn(S, lo, mid)

SetMax(S) == MaxIn(S, 0, UpperBound(S, 1))

\* max(col) over the rows of a table: ordering values follow storage order.
MaxTs(rows, dup) == Ts(SetMax(rows), dup)

\* The target queries _get_last_timestamp issues: EXISTS TABLE, then count()
\* when the table exists, then max() when it has rows.
LookupQueries(exists, rows) ==
    {"exists"} \cup (IF exists THEN {"count"} ELSE {})
               \cup (IF exists /\ rows # {} THEN {"max"} ELSE {})

\* Without the row-count test, max() over no rows gives the column default.
get_last_timestamp_nocount(exists, rows, dup, type) ==
    IF ~exists THEN None
    ELSE IF type = "Int64" THEN None
    ELSE StrVal(IF rows = {} THEN 0 ELSE MaxTs(rows, dup), "plain")

(***************************************************************************)
(* GuavaClickHouseETL._get_last_timestamp: the value returned when none of *)
(* the target queries raises.                                              *)
(***************************************************************************)
get_last_timestamp(exists, rows, dup, type) ==
    IF ~exists THEN None
    ELSE IF Cardinality(rows) = 0 THEN None
    ELSE IF type = "Int64"
         THEN IF Truthy(IntVal(MaxTs(rows, dup)))
              THEN IntVal(MaxTs(rows, dup)) ELSE None
         ELSE StrVal(MaxTs(rows, dup), "plain")

(***************************************************************************)
(* GuavaClickHouseETL._build_where_clause.  The clause is "" (empty) or    *)
(* "WHERE col > lit".                                                      *)
(***************************************************************************)
EmptyClause == [empty |-> TRUE, lit |-> None]
Gt(lit) == [empty |-> FALSE, lit |-> lit]

\* replace('T', ' '), removal of the timezone suffixes, strip()
StripTz(f) == IF f = "iso" THEN "plain" ELSE f

build_where_clause(timestamp_type, last) ==
    IF ~Truthy(last) THEN EmptyClause
    ELSE IF timestamp_type = "Int64" /\ last.kind = "int"
         THEN Gt(IntVal(last.v))
    ELSE IF timestamp_type = "DateTime64" /\ last.kind = "str"
         THEN Gt(StrVal(last.v, StripTz(last.form)))
    ELSE IF timestamp_type = "Int64" /\ last.kind = "str"
         THEN IF StripTz(last.form) = "plain"
              THEN Gt(IntVal(last.v))
              ELSE EmptyClause
    ELSE EmptyClause

(***************************************************************************)
(* The source server.  A literal it cannot parse makes the query raise.    *)
(* Row i satisfies "WHERE col > lit" when its ordering value is greater.   *)
(***************************************************************************)
ClauseValid(w) == w.empty \/ w.lit.kind = "int"
                          \/ (w.lit.kind = "str" /\ w.lit.form = "plain")

RowMatches(w, i, dup) == w.empty \/ Ts(i, dup) > w.lit.v

Matching(w, n, dup) == {i \in 1..n : RowMatches(w, i, dup)}

\* Ordering values are nondecreasing in storage order, so the matching rows
\* are the rows FirstMatch..n.
FirstMatch(w, n, dup) == 1 + Cardinality({i \in 1..n : ~RowMatches(w, i, dup)})

\* No ORDER BY is requested: the server answers LIMIT l OFFSET o from the
\* matching rows in an order of its choice, here storage order or its reverse.
ReadOrders == {"asc", "desc"}

PageRows(w, n, dup, l, o, order) ==
    IF order = "asc"
    THEN (FirstMatch(w, n, dup) + o) .. Min(FirstMatch(w, n, dup) + o + l - 1, n)
    ELSE Max(FirstMatch(w, n, dup), n - o - l + 1) .. (n - o)

(***************************************************************************)
(* _build_where_clause on the text of the watermark.  A timestamp string   *)
(* 'YYYY-MM-DD HH:00:00[.fraction][suffix]' is the record of                *)
(*   wall    the hours since 1970-01-01 00:00 its date and time read       *)
(*   sep     the separator of date and time, " " or "T"                    *)
(*   digits  the number of fraction digits, frac their value               *)
(*   tz      the timezone suffix, "" when there is none                    *)
(* An integer of nanoseconds s * NanosPerSecond + ns, 0 <= ns <            *)
(* NanosPerSecond, is the record Nanos(s, ns).                             *)
(***************************************************************************)
NanosPerSecond == 1000000000

Nanos(s, ns) == [s |-> s, ns |-> ns]

IntText(n) == [kind |-> "int", n |-> n]

TsText(wall, sep, digits, frac, tz) ==
    [kind |-> "str", wall |-> wall, sep |-> sep, digits |-> digits,
     frac |-> frac, tz |-> tz]

\* lines 99 and 109: the suffixes the loop removes
TzList == {"+09:00", "+00:00", "Z", "-00:00", "+01:00", "-01:00"}

\* lines 98-101, 108-111: replace('T', ' '), removal of the suffixes, strip()
strip_timezone(text) ==
    [text EXCEPT !.sep = " ", !.tz = IF @ \in TzList THEN "" ELSE @]

\* line 118: (nanosec or '0').ljust(9, '0')[:9], as an integer
pad_nanos(digits, frac) == frac * 10^(9 - digits)

\* lines 120-121: int(datetime(y, m, d, h, mi, s).timestamp()); a naive
\* datetime is read in the zone of the process
local_timestamp(wall, zone) == (wall - zone) * 3600

\* lines 82-134, the clause returned for last_value in a process of that zone
build_where_text(timestamp_type, last, zone) ==
    IF last.kind = "none" \/ (last.kind = "int" /\ last.n = Nanos(0, 0))
    THEN EmptyClause
    ELSE IF timestamp_type = "Int64" /\ last.kind = "int"
         THEN Gt(IntText(last.n))
    ELSE IF timestamp_type = "DateTime64" /\ last.kind = "str"
         THEN Gt(strip_timezone(last))
    ELSE IF timestamp_type = "Int64" /\ last.kind = "str"
         THEN LET t == strip_timezone(last)
              IN  Gt(IntText(Nanos(local_timestamp(t.wall, zone),
                                   pad_nanos(t.digits, t.frac))))
    ELSE EmptyClause

\* No call of _build_where_clause on its own takes part.
LiteralIdle ==
    /\ lit_pc = "idle"
    /\ lit_zone = 0
    /\ lit_type = "Int64"
    /\ lit_value = None
    /\ lit_clause = EmptyClause

(***************************************************************************)
(* GuavaClickHouseETL: the objects the runs start from.                    *)
(***************************************************************************)
TimestampTypes == {"Int64", "DateTime64"}

GuavaSmall ==
    [n : 0..SmallRows, dup : {1, 2}, bs : {1, 2}, cap : {SmallCap, DefaultMaxRows},
     type : TimestampTypes, pre : 0..SmallRows, exists : BOOLEAN]

GuavaBig ==
    [n : {BigRows}, dup : {1}, bs : {DefaultBatchSize, MinBatchSize},
     cap : {BigCap, DefaultMaxRows}, type : {"Int64"}, pre : {0}, exists : {TRUE}]

\* The target holds rows of the source, and holds none when it does not exist.
\* It starts as earlier complete runs leave it: with the rows up to an
\* ordering value, every row of that value included.
WholeGroups(pre, n, dup) == pre <= n /\ (pre % dup = 0 \/ pre = n)

GuavaConfigs == {c \in GuavaSmall \cup GuavaBig :
                    /\ WholeGroups(c.pre, c.n, c.dup)
                    /\ (c.pre > 0 => c.exists)}

GuavaObject(c) ==
    /\ table_type = c.type
    /\ batch_size = c.bs
    /\ batch_size0 = c.bs
    /\ max_rows = c.cap
    /\ src_n = c.n
    /\ src_dup = c.dup
    /\ target_exists = c.exists
    /\ dest = 1..c.pre

RunLocals ==
    /\ where_clause = EmptyClause
    /\ total_rows = 0
    /\ offset = 0
    /\ batch_num = 0
    /\ total_processed = 0
    /\ consecutive_failures = 0
    /\ current_batch_size = 0
    /\ query_limit = 0
    /\ df_batch = {}
    /\ inserted = 0
    /\ src_queries = 0
    /\ events = {}
    /\ fail_streak = 0
    /\ outcome = "running"

\* __init__: self.source_client = None, self.target_client = None
NoClients ==
    /\ source_client = "none"
    /\ target_client = "none"

GuavaInit ==
    /\ \E c \in GuavaConfigs : GuavaObject(c)
    /\ pc = "init"
    /\ last_value = None
    /\ RunLocals
    /\ NoClients

\* No GuavaClickHouseETL object takes part.
GuavaIdle ==
    /\ GuavaObject([n |-> 0, dup |-> 1, bs |-> DefaultBatchSize,
                    cap |-> DefaultMaxRows, type |-> "Int64", pre |-> 0,
                    exists |-> FALSE])
    /\ pc = "idle"
    /\ last_value = None
    /\ RunLocals
    /\ NoClients

(***************************************************************************)
(* AppleMangoOpenSearchETL._get_last_timestamp: the value returned when    *)
(* none of the target queries raises (a datetime, kind "dt").              *)
(***************************************************************************)
DtVal(n) == Val("dt", n, "-")

os_get_last_timestamp(exists, rows, dup) ==
    IF ~exists THEN None
    ELSE IF Cardinality(rows) = 0 THEN None
    ELSE IF Truthy(DtVal(MaxTs(rows, dup)))
         THEN DtVal(MaxTs(rows, dup)) ELSE None

\* _extract_from_index, lines 107-124: range gt last_timestamp.isoformat(),
\* or match_all; both sorted ascending by the timestamp field.
extract_query(last) ==
    IF Truthy(last) THEN Gt(StrVal(last.v, "isoformat")) ELSE EmptyClause

\* The page of `size` sorted hits the search or scroll call returns after the
\* scroll context has served `pos` documents.
ScrollHits(w, n, dup, pos, size) ==
    LET lo == FirstMatch(w, n, dup) + pos
        hi == Min(lo + size - 1, n)
    IN  [j \in 1..Max(hi - lo + 1, 0) |-> lo + j - 1]

\* hits[:remaining]
Trim(page, remaining) ==
    IF Len(page) > remaining THEN SubSeq(page, 1, remaining) ELSE page

\* data.iloc[i:i+batch_size]
Chunk(q, i) == {q[j] : j \in (i + 1)..Min(i + LoadBatchSize, Len(q))}

(***************************************************************************)
(* AppleMangoOpenSearchETL: the index and target table the processing of   *)
(* one index starts from.                                                  *)
(***************************************************************************)
OSSmall ==
    [n : 0..SmallDocs, dup : {1, 2}, cap : {SmallCap, DefaultMaxRowsPerIndex},
     pre : 0..SmallDocs, exists : BOOLEAN]

OSMid ==
    [n : {MidDocs}, dup : {1, 2}, cap : {MidCap, DefaultMaxRowsPerIndex},
     pre : {0, 2}, exists : {TRUE}]

OSBig ==
    [n : {BigDocs}, dup : {1, 3}, cap : {DefaultMaxRowsPerIndex},
     pre : {0}, exists : BOOLEAN]

OSConfigs == {c \in OSSmall \cup OSMid \cup OSBig :
                 /\ WholeGroups(c.pre, c.n, c.dup)
                 /\ (c.pre > 0 => c.exists)}

OSObject(c) ==
    /\ max_rows_per_index = c.cap
    /\ idx_n = c.n
    /\ idx_dup = c.dup
    /\ os_exists = c.exists
    /\ os_dest = 1..c.pre

OSLocals ==
    /\ last_timestamp = None
    /\ os_query = EmptyClause
    /\ scroll_pos = 0
    /\ hits = << >>
    /\ results = << >>
    /\ chunk_i = 0
    /\ os_events = {}
    /\ os_outcome = "running"

OSInit ==
    /\ \E c \in OSConfigs : OSObject(c)
    /\ os_pc = "start"
    /\ OSLocals

\* No AppleMangoOpenSearchETL object takes part.
OSIdle ==
    /\ OSObject([n |-> 0, dup |-> 1, cap |-> DefaultMaxRowsPerIndex, pre |-> 0,
                 exists |-> FALSE])
    /\ os_pc = "idle"
    /\ OSLocals

(***************************************************************************)
(* AppleMangoOpenSearchETL._load_to_table: the batches and the table.      *)
(***************************************************************************)
Jobs == {1, 2}

TimestampColumn == "opensearch_timestamp"

\* df.columns in column order
ColumnOrder == << TimestampColumn, "a", "b" >>

\* a transformed batch: the timestamp column and some of the fields a and b;
\* a is inferred as int64 or object
Batch(fields, a_dtype) ==
    [c \in {TimestampColumn} \cup fields |->
        IF c = TimestampColumn THEN "object"
        ELSE IF c = "a" THEN a_dtype ELSE "bool"]

Batches == {Batch(f, d) : f \in SUBSET {"a", "b"}, d \in {"int64", "object"}}

NoBatch == [c \in {} |-> "object"]

\* type_mapping.get(dtype_str, 'String')
type_mapping(dtype_str) ==
    CASE dtype_str = "int64" -> "Int64"
      [] dtype_str = "int32" -> "Int32"
      [] dtype_str = "int16" -> "Int16"
      [] dtype_str = "int8" -> "Int8"
      [] dtype_str = "uint64" -> "UInt64"
      [] dtype_str = "uint32" -> "UInt32"
      [] dtype_str = "uint16" -> "UInt16"
      [] dtype_str = "uint8" -> "UInt8"
      [] dtype_str = "float64" -> "Float64"
      [] dtype_str = "float32" -> "Float32"
      [] dtype_str = "object" -> "String"
      [] dtype_str = "datetime64[ns]" -> "DateTime64(3)"
      [] dtype_str = "bool" -> "String"
      [] OTHER -> "String"

Nullable(ch_type) == [base |-> ch_type, nullable |-> TRUE]
NotNull(ch_type) == [base |-> ch_type, nullable |-> FALSE]

ColumnNames(cols) == {cols[k].name : k \in DOMAIN cols}

\* _create_table_if_not_exists, lines 355-364: the column list of the CREATE
CreateColumns(df) ==
    LET present == SelectSeq(ColumnOrder, LAMBDA c : c \in DOMAIN df)
    IN  [k \in 1..Len(present) |->
            [name |-> present[k],
             type |-> IF present[k] = TimestampColumn
                      THEN NotNull(type_mapping(df[present[k]]))
                      ELSE Nullable(type_mapping(df[present[k]]))]]

CreatePlainRaises(exists) == exists

\* line 372: with IF NOT EXISTS the CREATE does not raise on an existing table
CreateRaises(exists) == FALSE

\* lines 371-378: CREATE TABLE IF NOT EXISTS, as the server applies it
create_table_if_not_exists(exists, cols, df) ==
    IF exists THEN cols ELSE CreateColumns(df)

missing_columns_nodiff(df, cols) == DOMAIN df

\* lines 293-296: missing_columns = new_columns - existing_columns
missing_columns(df, cols) == DOMAIN df \ ColumnNames(cols)

add_or_modify_column(cols, col, ch_type) ==
    IF col \in ColumnNames(cols)
    THEN [k \in DOMAIN cols |->
            IF cols[k].name = col
            THEN [name |-> col, type |-> Nullable(ch_type)] ELSE cols[k]]
    ELSE Append(cols, [name |-> col, type |-> Nullable(ch_type)])

\* line 324: ALTER TABLE ADD COLUMN col Nullable(ch_type), as the server
\* applies it: a column of that name is left as it is
add_column(cols, col, ch_type) ==
    IF col \in ColumnNames(cols) THEN cols
    ELSE Append(cols, [name |-> col, type |-> Nullable(ch_type)])

AlterRaisesDuplicate(err) == err = "already exists"

\* lines 327-331: the except clause of the ALTER passes on 'already exists'
\* and logs any other error; neither branch re-raises
AlterRaises(err) == FALSE

\* no call of _load_to_table has been made
JobLocals ==
    /\ job_pc = [j \in Jobs |-> "idle"]
    /\ job_df = [j \in Jobs |-> NoBatch]
    /\ job_missing = [j \in Jobs |-> {}]
    /\ job_loads = [j \in Jobs |-> 0]
    /\ job_error = [j \in Jobs |-> "none"]
    /\ job_attempted = [j \in Jobs |-> {}]
    /\ job_failed = [j \in Jobs |-> {}]
    /\ job_exists = [j \in Jobs |-> {}]
    /\ prev_df = [j \in Jobs |-> NoBatch]
    /\ prev_columns = [j \in Jobs |-> << >>]
    /\ prev_clean = [j \in Jobs |-> FALSE]

\* No call of _load_to_table takes part.
SchemaIdle ==
    /\ tbl_exists = FALSE
    /\ tbl_columns = << >>
    /\ job_quota = [j \in Jobs |-> 0]
    /\ JobLocals

(***************************************************************************)
(* GuavaMariaDBETL.load: the batch and the target table, a                 *)
(* ReplacingMergeTree ordered by the primary key.                          *)
(***************************************************************************)
MaxKeys == 2

Keys == 1..MaxKeys

\* no call of load has been made
LoadLocals ==
    /\ load_pc = [j \in Jobs |-> "idle"]
    /\ load_data = [j \in Jobs |-> {}]
    /\ load_calls = [j \in Jobs |-> 0]
    /\ load_cmds = [j \in Jobs |-> << >>]
    /\ load_error = [j \in Jobs |-> "none"]
    /\ load_count = [j \in Jobs |-> 0]
    /\ load_prev = [j \in Jobs |-> [data |-> {}, rows |-> [k \in Keys |-> 0],
                                     count |-> 0, returned |-> FALSE]]

\* No call of GuavaMariaDBETL.load takes part.
LoadIdle ==
    /\ mdb_exists = FALSE
    /\ mdb_rows = [k \in Keys |-> 0]
    /\ load_quota = [j \in Jobs |-> 0]
    /\ LoadLocals

\* No call of transform on its own takes part.
TransformIdle ==
    /\ tf_pc = "idle"
    /\ tf_data = << >>
    /\ tf_once = << >>
    /\ tf_twice = << >>

\* The indices the pattern matches, in sorted order; both names contain 'sms'.
SharedIndices == {1, 2}

NoQuery == [x \in SharedIndices |-> EmptyClause]
NoRows == [x \in SharedIndices |-> {}]

\* No loop over indices of one target table takes part.
SharedIdle ==
    /\ sh_docs = [x \in SharedIndices |-> [n |-> 0, shift |-> 0]]
    /\ sh_cap = DefaultMaxRowsPerIndex
    /\ sh_exists = FALSE
    /\ sh_table = {}
    /\ sh_i = 1
    /\ sh_step = "idle"
    /\ sh_data = {}
    /\ sh_query = NoQuery
    /\ sh_before = NoRows

\* No further run on the same table takes part.
RunsIdle ==
    /\ run_no = 0
    /\ run_dest0 = {}
    /\ run_order = "asc"
    /\ src_first = 1

UnitsIdle == LiteralIdle /\ LoadIdle /\ TransformIdle /\ SharedIdle /\ RunsIdle

\* No loop over objects takes part.
OrchIdle ==
    /\ orch_loop = "idle"
    /\ objects = << >>
    /\ obj_i = 1
    /\ orch_pc = "idle"
    /\ processed = << >>
    /\ raised = {}

Init ==
    \/ GuavaInit /\ OSIdle /\ OrchIdle /\ SchemaIdle /\ UnitsIdle
    \/ OSInit /\ GuavaIdle /\ OrchIdle /\ SchemaIdle /\ UnitsIdle

os_object == << max_rows_per_index, idx_n, idx_dup >>

(***************************************************************************)
(* AppleMangoOpenSearchETL._extract_from_index, lines 102-168.             *)
(***************************************************************************)
\* lines 105-124: the watermark and the query built from it
OSGetLastTimestamp ==
    /\ os_pc = "start"
    /\ \E raising \in {"none"} \cup LookupQueries(os_exists, os_dest) :
         /\ last_timestamp' = IF raising # "none" THEN None
                              ELSE os_get_last_timestamp(os_exists, os_dest, idx_dup)
         /\ os_events' = IF raising # "none" THEN os_events \cup {"lookup"}
                          ELSE os_events
    /\ os_query' = extract_query(last_timestamp')
    /\ os_pc' = "search"
    /\ UNCHANGED << gvars, ovars, svars, uvars, os_object, os_exists, os_dest, scroll_pos, hits,
                    results, chunk_i, os_outcome >>

\* lines 128-140: the first page
Search ==
    /\ os_pc = "search"
    /\ hits' = ScrollHits(os_query, idx_n, idx_dup, 0, ScrollSize)
    /\ scroll_pos' = Len(hits')
    /\ results' = hits'
    /\ os_pc' = "scroll"
    /\ UNCHANGED << gvars, ovars, svars, uvars, os_object, os_exists, os_dest, last_timestamp,
                    os_query, chunk_i, os_events, os_outcome >>

\* source_client.search or source_client.scroll raises: the exception leaves
\* _process_single_index and is caught by the loop of run()
ExtractFail ==
    /\ os_pc \in {"search", "scroll"}
    /\ os_pc' = "done"
    /\ os_outcome' = "failed"
    /\ os_events' = os_events \cup {"extract"}
    /\ UNCHANGED << gvars, ovars, svars, uvars, os_object, os_exists, os_dest, last_timestamp,
                    os_query, scroll_pos, hits, results, chunk_i >>

\* while len(hits) > 0 and len(results) < self.max_rows_per_index
ScrollOn == Len(hits) > 0 /\ Len(results) < max_rows_per_index

\* lines 143-158: one more page, trimmed to the remaining budget
Scroll ==
    /\ os_pc = "scroll"
    /\ ScrollOn
    /\ LET page == ScrollHits(os_query, idx_n, idx_dup, scroll_pos, ScrollSize)
       IN /\ scroll_pos' = scroll_pos + Len(page)
          /\ hits' = Trim(page, max_rows_per_index - Len(results))
          /\ results' = results \o hits'
    /\ os_pc' = IF Len(results') >= max_rows_per_index THEN "extracted" ELSE "scroll"
    /\ UNCHANGED << gvars, ovars, svars, uvars, os_object, os_exists, os_dest, last_timestamp,
                    os_query, chunk_i, os_events, os_outcome >>

\* the while test is false
ScrollEnd ==
    /\ os_pc = "scroll"
    /\ ~ScrollOn
    /\ os_pc' = "extracted"
    /\ UNCHANGED << gvars, ovars, svars, uvars, os_object, os_exists, os_dest, last_timestamp,
                    os_query, scroll_pos, hits, results, chunk_i, os_events,
                    os_outcome >>

(***************************************************************************)
(* AppleMangoOpenSearchETL._process_single_index, lines 93-100, and        *)
(* _load_to_table, lines 261-287.                                          *)
(***************************************************************************)
\* if len(data) == 0: return; otherwise transform
Extracted ==
    /\ os_pc = "extracted"
    /\ IF Len(results) = 0
       THEN os_pc' = "done" /\ os_outcome' = "nodata"
       ELSE os_pc' = "create" /\ os_outcome' = os_outcome
    /\ UNCHANGED << gvars, ovars, svars, uvars, os_object, os_exists, os_dest, last_timestamp,
                    os_query, scroll_pos, hits, results, chunk_i, os_events >>

\* _create_table_if_not_exists and _add_missing_columns return
PrepareTable ==
    /\ os_pc = "create"
    /\ os_exists' = TRUE
    /\ chunk_i' = 0
    /\ os_pc' = "insert"
    /\ UNCHANGED << gvars, ovars, svars, uvars, os_object, os_dest, last_timestamp, os_query,
                    scroll_pos, hits, results, os_events, os_outcome >>

\* the CREATE TABLE command or the DESCRIBE TABLE query raises
PrepareTableFail ==
    /\ os_pc = "create"
    /\ os_pc' = "done"
    /\ os_outcome' = "failed"
    /\ os_events' = os_events \cup {"create"}
    /\ UNCHANGED << gvars, ovars, svars, uvars, os_object, os_exists, os_dest, last_timestamp,
                    os_query, scroll_pos, hits, results, chunk_i >>

\* lines 278-282: one write-batch is inserted
InsertChunk ==
    /\ os_pc = "insert"
    /\ os_dest' = os_dest \cup Chunk(results, chunk_i)
    /\ chunk_i' = chunk_i + LoadBatchSize
    /\ IF chunk_i' >= Len(results)
       THEN os_pc' = "done" /\ os_outcome' = "loaded"
       ELSE os_pc' = "insert" /\ os_outcome' = os_outcome
    /\ UNCHANGED << gvars, ovars, svars, uvars, os_object, os_exists, last_timestamp, os_query,
                    scroll_pos, hits, results, os_events >>

\* lines 283-285: insert_df raises and the exception is re-raised
InsertChunkFail ==
    /\ os_pc = "insert"
    /\ os_pc' = "done"
    /\ os_outcome' = "failed"
    /\ os_events' = os_events \cup {"load"}
    /\ UNCHANGED << gvars, ovars, svars, uvars, os_object, os_exists, os_dest, last_timestamp,
                    os_query, scroll_pos, hits, results, chunk_i >>

process_single_index ==
    \/ OSGetLastTimestamp
    \/ Search
    \/ ExtractFail
    \/ Scroll
    \/ ScrollEnd
    \/ Extracted
    \/ PrepareTable
    \/ PrepareTableFail
    \/ InsertChunk
    \/ InsertChunkFail

object == << table_type, max_rows, src_n, src_dup, batch_size0 >>
clients == << source_client, target_client >>
loop_locals == << total_rows, offset, batch_num, total_processed,
                  consecutive_failures, current_batch_size, query_limit, df_batch >>

(***************************************************************************)
(* GuavaClickHouseETL.run, lines 138-162.                                  *)
(***************************************************************************)
\* lines 194-204, finally: close() is called on each client that is set
Unclosed(client) == client

Closed(client) == IF client = "open" THEN "closed" ELSE client

Finally ==
    /\ source_client' = Closed(source_client)
    /\ target_client' = Closed(target_client)

ReturnRaises(how) ==
    /\ pc' = "done"
    /\ outcome' = IF how = "stopped" THEN "raised" ELSE how
    /\ Finally

\* run() ends: by a return ("skipped", "nodata"), after _process_batches
\* returned ("completed", "stopped"), or by the re-raise of line 193 ("raised")
Return(how) ==
    /\ pc' = "done"
    /\ outcome' = how
    /\ Finally

\* lines 144-145: get_clickhouse_client raises for the source, or for the
\* target after the source client was set; the exception leaves run().
ConnectFail ==
    /\ pc = "init"
    /\ pc' = "done"
    /\ outcome' = "raised"
    /\ \E failing \in {"GUAVA", "TARGET"} :
         source_client' = IF failing = "GUAVA" THEN "none" ELSE Closed("open")
    /\ target_client' = "none"
    /\ events' = events \cup {"connect"}
    /\ UNCHANGED << osvars, ovars, svars, uvars, object, batch_size, target_exists, dest, last_value,
                    where_clause, loop_locals, inserted, src_queries, fail_streak >>

\* _create_otel_table_from_source: CREATE TABLE IF NOT EXISTS from the source's
\* SHOW CREATE TABLE; every exception is swallowed.
create_otel_table_from_source ==
    /\ pc = "init"
    /\ source_client' = "open"
    /\ target_client' = "open"
    /\ \E ok \in BOOLEAN : target_exists' = (target_exists \/ ok)
    /\ pc' = "resolve"
    /\ UNCHANGED << osvars, ovars, svars, uvars, object, batch_size, dest, last_value, where_clause,
                    loop_locals, inserted, src_queries, events, fail_streak,
                    outcome >>

GetLastTimestampRaises ==
    /\ pc = "resolve"
    /\ \E raising \in {"none"} \cup LookupQueries(target_exists, dest) :
         IF raising # "none"
         THEN /\ Return("raised")
              /\ events' = events \cup {"lookup"}
              /\ UNCHANGED last_value
         ELSE /\ pc' = "where"
              /\ last_value' = get_last_timestamp(target_exists, dest, src_dup,
                                                  table_type)
              /\ UNCHANGED << outcome, events, clients >>
    /\ UNCHANGED << osvars, ovars, svars, uvars, object, batch_size, target_exists, dest, where_clause,
                    loop_locals, inserted, src_queries, fail_streak >>

\* last_value = self._get_last_timestamp(timestamp_col); a target query that
\* raises (one of those the call issues, or none) is caught inside and gives
\* None.
GetLastTimestamp ==
    /\ pc = "resolve"
    /\ \E raising \in {"none"} \cup LookupQueries(target_exists, dest) :
         /\ last_value' = IF raising # "none" THEN None
                          ELSE get_last_timestamp(target_exists, dest, src_dup,
                                                  table_type)
         /\ events' = IF raising # "none" THEN events \cup {"lookup"} ELSE events
    /\ pc' = "where"
    /\ UNCHANGED << osvars, ovars, svars, uvars, object, clients, batch_size, target_exists, dest, where_clause,
                    loop_locals, inserted, src_queries, fail_streak, outcome >>

BuildWhereNoSkip ==
    /\ pc = "where"
    /\ where_clause' = build_where_clause(table_type, last_value)
    /\ pc' = "count"
    /\ UNCHANGED << osvars, ovars, svars, uvars, object, clients, batch_size, target_exists, dest, last_value,
                    loop_locals, inserted, src_queries, events, fail_streak,
                    outcome >>

\* where_clause = self._build_where_clause(...);
\* if not where_clause and last_value: return
BuildWhere ==
    /\ pc = "where"
    /\ where_clause' = build_where_clause(table_type, last_value)
    /\ IF where_clause'.empty /\ Truthy(last_value)
       THEN Return("skipped")
       ELSE pc' = "count" /\ UNCHANGED << outcome, clients >>
    /\ UNCHANGED << osvars, ovars, svars, uvars, object, batch_size, target_exists, dest, last_value,
                    loop_locals, inserted, src_queries, events, fail_streak >>

(***************************************************************************)
(* GuavaClickHouseETL.run, lines 164-183: the count query and the cap.     *)
(***************************************************************************)
CappedNever(count, cap) == count

Capped(count, cap) == IF count > cap THEN cap ELSE count

CountQuery ==
    /\ pc = "count"
    /\ ClauseValid(where_clause)
    /\ src_queries' = src_queries + 1
    /\ total_rows' = Capped(Cardinality(Matching(where_clause, src_n, src_dup)),
                            max_rows)
    /\ IF total_rows' = 0
       THEN Return("nodata")
       ELSE pc' = "loop" /\ UNCHANGED << outcome, clients >>
    /\ offset' = 0
    /\ batch_num' = 0
    /\ total_processed' = 0
    /\ consecutive_failures' = 0
    /\ UNCHANGED << osvars, ovars, svars, uvars, object, batch_size, target_exists, dest, last_value,
                    where_clause, current_batch_size, query_limit, df_batch,
                    inserted, events, fail_streak >>

\* source_client.query(count_query) raises: the exception leaves run().
CountQueryFail ==
    /\ pc = "count"
    /\ src_queries' = src_queries + 1
    /\ Return("raised")
    /\ events' = events \cup {"count"}
    /\ UNCHANGED << osvars, ovars, svars, uvars, object, batch_size, target_exists, dest, last_value,
                    where_clause, loop_locals, inserted, fail_streak >>

(***************************************************************************)
(* GuavaClickHouseETL._process_batches, lines 206-314.                     *)
(*   pc = "loop"    at the while test                                      *)
(*   pc = "halved"  before the halved query of line 247                    *)
(*   pc = "retry"   before the retry of line 273                           *)
(*   pc = "got"     a non-empty df_batch is to be transformed              *)
(*   pc = "load"    df_transformed is to be loaded                         *)
(***************************************************************************)
\* while offset < total_rows (batch_num is bounded by MaxBatches)
InLoop == pc = "loop" /\ offset < total_rows /\ batch_num < MaxBatches

\* current_batch_size = min(self.batch_size, remaining)
PageSizeUnclamped == batch_size

PageSize == Min(batch_size, total_rows - offset)

\* smaller_batch = current_batch_size // 2
Halve(size) == size \div 2

\* if current_batch_size > 100
CanHalve(size) == size > MinBatchSize

\* if consecutive_failures >= max_consecutive_failures
MustStop(failures) == failures >= max_consecutive_failures

SkipForwardStuck(by) ==
    /\ offset' = offset
    /\ fail_streak' = fail_streak + 1
    /\ pc' = "loop"

\* offset += ... ; continue, after a page that was not extracted
SkipForward(by) ==
    /\ offset' = offset + by
    /\ fail_streak' = fail_streak + 1
    /\ pc' = "loop"

AfterExtractNoTransform ==
    /\ fail_streak' = 0
    /\ IF df_batch' = {}
       THEN Return("completed")
       ELSE pc' = "load" /\ UNCHANGED << outcome, clients >>

\* if len(df_batch) == 0: break
AfterExtract ==
    /\ fail_streak' = 0
    /\ IF df_batch' = {}
       THEN Return("completed")
       ELSE pc' = "got" /\ UNCHANGED << outcome, clients >>

\* while offset < total_rows is false: the loop ends
LoopExit ==
    /\ pc = "loop"
    /\ ~(offset < total_rows)
    /\ Return("completed")
    /\ UNCHANGED << osvars, ovars, svars, uvars, object, batch_size, target_exists, dest, last_value,
                    where_clause, loop_locals, inserted, src_queries, events,
                    fail_streak >>

\* lines 215-229: the page query succeeds
QueryOk ==
    /\ InLoop
    /\ batch_num' = batch_num + 1
    /\ current_batch_size' = PageSize
    /\ query_limit' = PageSize
    /\ src_queries' = src_queries + 1
    /\ \E order \in ReadOrders :
         df_batch' = PageRows(where_clause, src_n, src_dup, PageSize, offset, order)
    /\ consecutive_failures' = 0
    /\ AfterExtract
    /\ UNCHANGED << osvars, ovars, svars, uvars, object, batch_size, target_exists, dest, last_value,
                    where_clause, total_rows, offset, total_processed, inserted,
                    events >>

\* lines 230-260: the page query raises MEMORY_LIMIT_EXCEEDED
QueryMemoryLimit ==
    /\ InLoop
    /\ batch_num' = batch_num + 1
    /\ current_batch_size' = PageSize
    /\ src_queries' = src_queries + 1
    /\ consecutive_failures' = consecutive_failures + 1
    /\ events' = events \cup {"memory"}
    /\ IF CanHalve(PageSize)
       THEN /\ query_limit' = Halve(PageSize)
            /\ pc' = "halved"
            /\ UNCHANGED << offset, fail_streak >>
       ELSE /\ query_limit' = PageSize
            /\ SkipForward(PageSize)
    /\ UNCHANGED << osvars, ovars, svars, uvars, object, clients, batch_size, target_exists, dest, last_value,
                    where_clause, total_rows, total_processed, df_batch,
                    inserted, outcome >>

\* lines 230-234, 261-269: the page query raises another error
QueryError ==
    /\ InLoop
    /\ batch_num' = batch_num + 1
    /\ current_batch_size' = PageSize
    /\ query_limit' = PageSize
    /\ src_queries' = src_queries + 1
    /\ consecutive_failures' = consecutive_failures + 1
    /\ events' = events \cup {"error"}
    /\ IF MustStop(consecutive_failures')
       THEN /\ Return("stopped")
            /\ fail_streak' = fail_streak + 1
       ELSE /\ pc' = "retry"
            /\ UNCHANGED << outcome, fail_streak, clients >>
    /\ UNCHANGED << osvars, ovars, svars, uvars, object, batch_size, target_exists, dest, last_value,
                    where_clause, total_rows, offset, total_processed, df_batch,
                    inserted >>

\* lines 245-251, then 264-269: the halved query succeeds; control falls
\* through to the failure test and the retry below it
HalvedOk ==
    /\ pc = "halved"
    /\ src_queries' = src_queries + 1
    /\ \E order \in ReadOrders :
         df_batch' = PageRows(where_clause, src_n, src_dup, query_limit, offset, order)
    /\ current_batch_size' = query_limit
    /\ batch_size' = query_limit
    /\ consecutive_failures' = 0
    /\ IF MustStop(consecutive_failures')
       THEN Return("stopped")
       ELSE pc' = "retry" /\ UNCHANGED << outcome, clients >>
    /\ UNCHANGED << osvars, ovars, svars, uvars, object, target_exists, dest, last_value, where_clause,
                    total_rows, offset, batch_num, total_processed, query_limit,
                    inserted, events, fail_streak >>

HalvedFailShrinks ==
    /\ pc = "halved"
    /\ src_queries' = src_queries + 1
    /\ SkipForward(query_limit)
    /\ batch_size' = query_limit
    /\ UNCHANGED << osvars, ovars, svars, uvars, object, clients, target_exists,
                    dest, last_value, where_clause, total_rows, batch_num,
                    total_processed, consecutive_failures, current_batch_size,
                    query_limit, df_batch, inserted, events, outcome >>

\* lines 252-256: the halved query raises
HalvedFail ==
    /\ pc = "halved"
    /\ src_queries' = src_queries + 1
    /\ SkipForward(query_limit)
    /\ UNCHANGED << osvars, ovars, svars, uvars, object, clients, batch_size, target_exists, dest, last_value,
                    where_clause, total_rows, batch_num, total_processed,
                    consecutive_failures, current_batch_size, query_limit,
                    df_batch, inserted, events, outcome >>

RetryOkKeepsCount ==
    /\ pc = "retry"
    /\ src_queries' = src_queries + 1
    /\ \E order \in ReadOrders :
         df_batch' = PageRows(where_clause, src_n, src_dup, query_limit, offset, order)
    /\ AfterExtract
    /\ UNCHANGED << osvars, ovars, svars, uvars, object, batch_size, target_exists, dest, last_value,
                    where_clause, total_rows, offset, batch_num, total_processed,
                    current_batch_size, query_limit, inserted, events,
                    consecutive_failures >>

\* lines 271-274: the retry of query succeeds
RetryOk ==
    /\ pc = "retry"
    /\ src_queries' = src_queries + 1
    /\ \E order \in ReadOrders :
         df_batch' = PageRows(where_clause, src_n, src_dup, query_limit, offset, order)
    /\ consecutive_failures' = 0
    /\ AfterExtract
    /\ UNCHANGED << osvars, ovars, svars, uvars, object, batch_size, target_exists, dest, last_value,
                    where_clause, total_rows, offset, batch_num, total_processed,
                    current_batch_size, query_limit, inserted, events >>

\* lines 275-278: the retry raises
RetryFail ==
    /\ pc = "retry"
    /\ src_queries' = src_queries + 1
    /\ SkipForward(current_batch_size)
    /\ UNCHANGED << osvars, ovars, svars, uvars, object, clients, batch_size, target_exists, dest, last_value,
                    where_clause, total_rows, batch_num, total_processed,
                    consecutive_failures, current_batch_size, query_limit,
                    df_batch, inserted, events, outcome >>

\* lines 285-286: transform returns
TransformOk ==
    /\ pc = "got"
    /\ pc' = "load"
    /\ UNCHANGED << osvars, ovars, svars, uvars, object, clients, batch_size, target_exists, dest, last_value,
                    where_clause, loop_locals, inserted, src_queries, events,
                    fail_streak, outcome >>

\* lines 287-290: transform raises
TransformFail ==
    /\ pc = "got"
    /\ offset' = offset + current_batch_size
    /\ events' = events \cup {"transform"}
    /\ pc' = "loop"
    /\ UNCHANGED << osvars, ovars, svars, uvars, object, clients, batch_size, target_exists, dest, last_value,
                    where_clause, total_rows, batch_num, total_processed,
                    consecutive_failures, current_batch_size, query_limit,
                    df_batch, inserted, src_queries, fail_streak, outcome >>

LoadOkRefresh ==
    /\ pc = "load"
    /\ target_exists
    /\ dest' = dest \cup df_batch
    /\ inserted' = inserted + Cardinality(df_batch)
    /\ total_processed' = total_processed + Cardinality(df_batch)
    /\ offset' = offset + current_batch_size
    /\ last_value' = get_last_timestamp(TRUE, dest', src_dup, table_type)
    /\ where_clause' = build_where_clause(table_type, last_value')
    /\ pc' = "loop"
    /\ UNCHANGED << osvars, ovars, svars, uvars, object, clients, batch_size,
                    target_exists, total_rows, batch_num, consecutive_failures,
                    current_batch_size, query_limit, df_batch, src_queries,
                    events, fail_streak, outcome >>

\* lines 293-294, 302-312 and _load_batch: insert_df returns
LoadOk ==
    /\ pc = "load"
    /\ target_exists
    /\ dest' = dest \cup df_batch
    /\ inserted' = inserted + Cardinality(df_batch)
    /\ total_processed' = total_processed + Cardinality(df_batch)
    /\ offset' = offset + current_batch_size
    /\ pc' = "loop"
    /\ UNCHANGED << osvars, ovars, svars, uvars, object, clients, batch_size, target_exists, last_value, where_clause,
                    total_rows, batch_num, consecutive_failures,
                    current_batch_size, query_limit, df_batch, src_queries,
                    events, fail_streak, outcome >>

LoadFailCounts ==
    /\ pc = "load"
    /\ inserted' = inserted + Cardinality(df_batch)
    /\ offset' = offset + current_batch_size
    /\ consecutive_failures' = consecutive_failures + 1
    /\ events' = events \cup {"load"}
    /\ pc' = "loop"
    /\ UNCHANGED << osvars, ovars, svars, uvars, object, clients, batch_size, target_exists, dest,
                    last_value, where_clause, total_rows, batch_num,
                    total_processed, current_batch_size, query_limit,
                    df_batch, src_queries, fail_streak, outcome >>

\* lines 295-300 and _load_batch: insert_df raises
LoadFail ==
    /\ pc = "load"
    /\ inserted' = inserted + Cardinality(df_batch)
    /\ offset' = offset + current_batch_size
    /\ events' = events \cup {"load"}
    /\ pc' = "loop"
    /\ UNCHANGED << osvars, ovars, svars, uvars, object, clients, batch_size, target_exists, dest, last_value,
                    where_clause, total_rows, batch_num, total_processed,
                    consecutive_failures, current_batch_size, query_limit,
                    df_batch, src_queries, fail_streak, outcome >>

process_batches ==
    \/ LoopExit
    \/ QueryOk
    \/ QueryMemoryLimit
    \/ QueryError
    \/ HalvedOk
    \/ HalvedFail
    \/ RetryOk
    \/ RetryFail
    \/ TransformOk
    \/ TransformFail
    \/ LoadOk
    \/ LoadFail

\* GuavaClickHouseETL.run
run ==
    \/ ConnectFail
    \/ create_otel_table_from_source
    \/ GetLastTimestamp
    \/ BuildWhere
    \/ CountQuery
    \/ CountQueryFail
    \/ process_batches

Next ==
    \/ run
    \/ process_single_index

Spec == Init /\ [][Next]_vars

\* Every enabled step is eventually taken: run() is one sequential call.
SpecFair == Spec /\ WF_vars(Next)

(***************************************************************************)
(* run() from line 158 on, entered with any value _build_where_clause can  *)
(* be handed as last_value.                                                *)
(***************************************************************************)
FilterInputs ==
    {None, ObjVal} \cup {IntVal(n) : n \in 0..SmallRows}
                   \cup {StrVal(n, f) : n \in 0..SmallRows, f \in StrForms}

FilterInit ==
    /\ \E c \in {g \in GuavaConfigs : g.exists /\ g.pre = 0 /\ g.dup = 1} :
         GuavaObject(c)
    /\ pc = "where"
    /\ last_value \in FilterInputs
    /\ RunLocals
    /\ source_client = "open"
    /\ target_client = "open"
    /\ OSIdle
    /\ OrchIdle
    /\ SchemaIdle
    /\ UnitsIdle

FilterNext ==
    \/ BuildWhere
    \/ CountQuery
    \/ CountQueryFail
    \/ process_batches

SpecFilter == FilterInit /\ [][FilterNext]_vars

(***************************************************************************)
(* run() against a source that answers a page query with fewer rows than   *)
(* the LIMIT asks for: rows counted at line 168 are gone when the page is  *)
(* read, or the server cuts the result short.  Line 280 tests for the      *)
(* empty case of such an answer.                                           *)
(***************************************************************************)
MaxShort == 1

\* the page without its last s rows
Short(page, s) ==
    IF page = {} THEN {}
    ELSE LET top == SetMax(page) IN {i \in page : i + s <= top}

\* lines 215-229: the page query returns fewer rows than its LIMIT
QueryShort ==
    /\ InLoop
    /\ batch_num' = batch_num + 1
    /\ current_batch_size' = PageSize
    /\ query_limit' = PageSize
    /\ src_queries' = src_queries + 1
    /\ \E order \in ReadOrders, s \in 1..Min(MaxShort, PageSize) :
         df_batch' = Short(PageRows(where_clause, src_n, src_dup, PageSize,
                                    offset, order), s)
    /\ consecutive_failures' = 0
    /\ events' = events \cup {"short"}
    /\ AfterExtract
    /\ UNCHANGED << osvars, ovars, svars, uvars, object, batch_size, target_exists, dest, last_value,
                    where_clause, total_rows, offset, total_processed, inserted >>

ShortNext ==
    \/ run
    \/ QueryShort

ShortInit == GuavaInit /\ OSIdle /\ OrchIdle /\ SchemaIdle /\ UnitsIdle

SpecShort == ShortInit /\ [][ShortNext]_vars

(***************************************************************************)
(* The loops over source objects: run_all_etl (main.py) over the tables of *)
(* its four jobs, AppleMangoOpenSearchETL.run over the matching indices.   *)
(* The loop sees the processing of an object as a call that returns or     *)
(* raises an Exception.                                                    *)
(***************************************************************************)
MaxTables == 2
MaxIndices == 4

\* the objects 1..n of one job, in list order
ObjectsOf(job, n) == [k \in 1..n |-> [job |-> job, name |-> k]]

\* main.py, lines 69-163: the tables of AppleMangoMariaDBETL, the one
\* AppleMangoOpenSearchETL, the tables of GuavaMariaDBETL and those of
\* GuavaClickHouseETL
TableList(a, g, c) ==
    ObjectsOf("AppleMangoMariaDBETL", a) \o ObjectsOf("AppleMangoOpenSearchETL", 1)
        \o ObjectsOf("GuavaMariaDBETL", g) \o ObjectsOf("GuavaClickHouseETL", c)

OrchInit ==
    /\ \/ /\ orch_loop = "run_all_etl"
          /\ \E a \in 0..MaxTables, g \in 0..MaxTables, c \in 0..MaxTables :
               objects = TableList(a, g, c)
       \/ /\ orch_loop = "indices"
          /\ \E n \in 0..MaxIndices : objects = ObjectsOf("index", n)
    /\ obj_i = 1
    /\ orch_pc = "start"
    /\ processed = << >>
    /\ raised = {}
    /\ GuavaIdle
    /\ OSIdle
    /\ SchemaIdle
    /\ UnitsIdle

\* etl_applemango_opensearch.py, lines 33-35: if not indices: return
NoIndices ==
    /\ orch_pc = "start"
    /\ orch_loop = "indices"
    /\ objects = << >>
    /\ orch_pc' = "done"
    /\ UNCHANGED << gvars, osvars, svars, uvars, orch_loop, objects, obj_i, processed, raised >>

\* the first for statement is reached
EnterLoop ==
    /\ orch_pc = "start"
    /\ ~(orch_loop = "indices" /\ objects = << >>)
    /\ orch_pc' = "loop"
    /\ UNCHANGED << gvars, osvars, svars, uvars, orch_loop, objects, obj_i, processed, raised >>

\* the try body returns: run() of the table's job, _process_single_index
ObjectReturns ==
    /\ orch_pc = "loop"
    /\ obj_i <= Len(objects)
    /\ processed' = Append(processed, objects[obj_i])
    /\ obj_i' = obj_i + 1
    /\ UNCHANGED << gvars, osvars, svars, uvars, orch_loop, objects, orch_pc, raised >>

ObjectRaisesPropagates ==
    /\ orch_pc = "loop"
    /\ obj_i <= Len(objects)
    /\ processed' = Append(processed, objects[obj_i])
    /\ raised' = raised \cup {obj_i}
    /\ orch_pc' = "done"
    /\ UNCHANGED << gvars, osvars, svars, uvars, orch_loop, objects, obj_i >>

\* the try body raises: except Exception logs it and the loop continues
ObjectRaises ==
    /\ orch_pc = "loop"
    /\ obj_i <= Len(objects)
    /\ processed' = Append(processed, objects[obj_i])
    /\ raised' = raised \cup {obj_i}
    /\ obj_i' = obj_i + 1
    /\ UNCHANGED << gvars, osvars, svars, uvars, orch_loop, objects, orch_pc >>

\* the last for statement is exhausted
LoopEnd ==
    /\ orch_pc = "loop"
    /\ obj_i > Len(objects)
    /\ orch_pc' = "done"
    /\ UNCHANGED << gvars, osvars, svars, uvars, orch_loop, objects, obj_i, processed, raised >>

OrchNext ==
    \/ NoIndices
    \/ EnterLoop
    \/ ObjectReturns
    \/ ObjectRaises
    \/ LoopEnd

SpecOrch == OrchInit /\ [][OrchNext]_vars

(***************************************************************************)
(* AppleMangoOpenSearchETL._load_to_table, lines 261-287, called by the    *)
(* jobs that load into one target table: job 1 repeatedly, job 2 at the    *)
(* same time.  Every command sent to the target can raise.                 *)
(*   job_pc = "create"    before _create_table_if_not_exists               *)
(*   job_pc = "describe"  before the DESCRIBE of _add_missing_columns      *)
(*   job_pc = "alter"     in the for loop over missing_columns             *)
(*   job_pc = "insert"    before insert_df                                 *)
(***************************************************************************)
MaxLoads == 2

\* job 1 makes up to MaxLoads calls in a row on its own, or the two jobs
\* make one call each at the same time
Quotas == {q \in [Jobs -> 0..MaxLoads] :
              /\ q[1] >= 1
              /\ q[2] = 0 \/ (q[1] = 1 /\ q[2] = 1)}

SchemaInit ==
    /\ \/ tbl_exists = FALSE /\ tbl_columns = << >>
       \/ tbl_exists = TRUE /\ \E b \in Batches : tbl_columns = CreateColumns(b)
    /\ job_quota \in Quotas
    /\ JobLocals
    /\ GuavaIdle
    /\ OSIdle
    /\ OrchIdle
    /\ UnitsIdle

job_history == << job_attempted, job_failed, job_exists >>
job_prev == << prev_df, prev_columns, prev_clean >>

\* the exception e leaves _load_to_table
CallRaises(j, e) ==
    /\ job_error' = [job_error EXCEPT ![j] = e]
    /\ job_pc' = [job_pc EXCEPT ![j] = "idle"]

\* _load_to_table(data, table_name) is called with a non-empty batch
StartLoad(j) ==
    /\ job_pc[j] = "idle"
    /\ job_loads[j] < job_quota[j]
    /\ \E df \in Batches : job_df' = [job_df EXCEPT ![j] = df]
    /\ job_loads' = [job_loads EXCEPT ![j] = @ + 1]
    /\ prev_df' = [prev_df EXCEPT ![j] = job_df[j]]
    /\ prev_columns' = [prev_columns EXCEPT ![j] = tbl_columns]
    /\ prev_clean' = [prev_clean EXCEPT ![j] =
                         /\ job_loads[j] > 0
                         /\ job_error[j] \in {"none", "insert"}
                         /\ job_failed[j] = {}]
    /\ job_error' = [job_error EXCEPT ![j] = "none"]
    /\ job_missing' = [job_missing EXCEPT ![j] = {}]
    /\ job_attempted' = [job_attempted EXCEPT ![j] = {}]
    /\ job_failed' = [job_failed EXCEPT ![j] = {}]
    /\ job_exists' = [job_exists EXCEPT ![j] = {}]
    /\ job_pc' = [job_pc EXCEPT ![j] = "create"]
    /\ UNCHANGED << gvars, osvars, ovars, uvars, tbl_exists, tbl_columns, job_quota >>

\* _create_table_if_not_exists returns
CreateTable(j) ==
    /\ job_pc[j] = "create"
    /\ IF CreateRaises(tbl_exists)
       THEN /\ CallRaises(j, "table already exists")
            /\ UNCHANGED << tbl_exists, tbl_columns >>
       ELSE /\ tbl_columns' = create_table_if_not_exists(tbl_exists, tbl_columns,
                                                        job_df[j])
            /\ tbl_exists' = TRUE
            /\ job_pc' = [job_pc EXCEPT ![j] = "describe"]
            /\ UNCHANGED job_error
    /\ UNCHANGED << gvars, osvars, ovars, uvars, job_df, job_missing, job_quota,
                    job_loads, job_history, job_prev >>

\* line 378: the CREATE TABLE command raises
CreateTableFail(j) ==
    /\ job_pc[j] = "create"
    /\ CallRaises(j, "create")
    /\ UNCHANGED << gvars, osvars, ovars, uvars, tbl_exists, tbl_columns, job_df,
                    job_missing, job_quota, job_loads, job_history, job_prev >>

\* lines 292-299: DESCRIBE TABLE and the missing columns
Describe(j) ==
    /\ job_pc[j] = "describe"
    /\ job_missing' = [job_missing EXCEPT ![j] = missing_columns(job_df[j], tbl_columns)]
    /\ job_pc' = [job_pc EXCEPT ![j] =
                     IF job_missing'[j] = {} THEN "insert" ELSE "alter"]
    /\ UNCHANGED << gvars, osvars, ovars, uvars, tbl_exists, tbl_columns, job_df,
                    job_quota, job_loads, job_error, job_history, job_prev >>

\* lines 333-335: the DESCRIBE raises and the exception is re-raised
DescribeFail(j) ==
    /\ job_pc[j] = "describe"
    /\ CallRaises(j, "describe")
    /\ UNCHANGED << gvars, osvars, ovars, uvars, tbl_exists, tbl_columns, job_df,
                    job_missing, job_quota, job_loads, job_history, job_prev >>

\* lines 319-331, one iteration for a column col of missing_columns (a set:
\* any order); err is what the ALTER raised
AfterAlter(j, col, err) ==
    /\ job_attempted' = [job_attempted EXCEPT ![j] = @ \cup {col}]
    /\ job_missing' = [job_missing EXCEPT ![j] = @ \ {col}]
    /\ job_exists' = [job_exists EXCEPT ![j] =
                         IF err = "already exists" THEN @ \cup {col} ELSE @]
    /\ job_failed' = [job_failed EXCEPT ![j] =
                         IF err = "other" THEN @ \cup {col} ELSE @]
    /\ IF AlterRaises(err)
       THEN CallRaises(j, err)
       ELSE /\ job_pc' = [job_pc EXCEPT ![j] =
                            IF job_missing'[j] = {} THEN "insert" ELSE "alter"]
            /\ UNCHANGED job_error

\* the server executes the ALTER: it adds the column, or answers that a
\* column of that name already exists
AlterColumn(j) ==
    /\ job_pc[j] = "alter"
    /\ \E col \in job_missing[j] :
         /\ tbl_columns' = add_column(tbl_columns, col, type_mapping(job_df[j][col]))
         /\ AfterAlter(j, col, IF col \in ColumnNames(tbl_columns)
                                THEN "already exists" ELSE "none")
    /\ UNCHANGED << gvars, osvars, ovars, uvars, tbl_exists, job_df, job_quota,
                    job_loads, job_prev >>

\* the ALTER fails for another reason
AlterColumnFail(j) ==
    /\ job_pc[j] = "alter"
    /\ \E col \in job_missing[j] : AfterAlter(j, col, "other")
    /\ UNCHANGED << gvars, osvars, ovars, uvars, tbl_exists, tbl_columns, job_df,
                    job_quota, job_loads, job_prev >>

\* lines 278-287: insert_df accepts the batch; it names the columns of the
\* batch, all of which the table has
Insert(j) ==
    /\ job_pc[j] = "insert"
    /\ DOMAIN job_df[j] \subseteq ColumnNames(tbl_columns)
    /\ job_pc' = [job_pc EXCEPT ![j] = "idle"]
    /\ UNCHANGED << gvars, osvars, ovars, uvars, tbl_exists, tbl_columns, job_df,
                    job_missing, job_quota, job_loads, job_error, job_history,
                    job_prev >>

\* lines 283-285: insert_df raises, for a column of the batch the table does
\* not have or for another reason, and the exception is re-raised
InsertFail(j) ==
    /\ job_pc[j] = "insert"
    /\ CallRaises(j, IF DOMAIN job_df[j] \subseteq ColumnNames(tbl_columns)
                     THEN "insert" ELSE "unrecognized column")
    /\ UNCHANGED << gvars, osvars, ovars, uvars, tbl_exists, tbl_columns, job_df,
                    job_missing, job_quota, job_loads, job_history, job_prev >>

load_to_table(j) ==
    \/ StartLoad(j)
    \/ CreateTable(j)
    \/ CreateTableFail(j)
    \/ Describe(j)
    \/ DescribeFail(j)
    \/ AlterColumn(j)
    \/ AlterColumnFail(j)
    \/ Insert(j)
    \/ InsertFail(j)

SchemaNext == \E j \in Jobs : load_to_table(j)

SpecSchema == SchemaInit /\ [][SchemaNext]_vars

(***************************************************************************)
(* _build_where_clause called on its own with a watermark of a supported   *)
(* kind.  The servers and the process run in one zone, lit_zone.           *)
(***************************************************************************)
MaxWall == 2

\* the offsets the suffixes of TzList name
Zones == {-1, 0, 1, 9}

Fractions == {<< 0, 0 >>, << 3, 120 >>, << 9, 123456789 >>}

LiteralInputs ==
    {IntText(Nanos(s, ns)) : s \in 0..MaxWall, ns \in {0, 5}}
    \cup {TsText(w, sep, f[1], f[2], tz) :
              w \in 0..MaxWall, sep \in {" ", "T"}, f \in Fractions,
              tz \in TzList \cup {""}}

LiteralInit ==
    /\ lit_pc = "call"
    /\ lit_zone \in Zones
    /\ lit_type \in TimestampTypes
    /\ lit_value \in LiteralInputs
    /\ lit_clause = EmptyClause
    /\ GuavaIdle
    /\ OSIdle
    /\ OrchIdle
    /\ SchemaIdle
    /\ LoadIdle
    /\ TransformIdle
    /\ SharedIdle
    /\ RunsIdle

BuildLiteral ==
    /\ lit_pc = "call"
    /\ lit_clause' = build_where_text(lit_type, lit_value, lit_zone)
    /\ lit_pc' = "returned"
    /\ UNCHANGED << gvars, osvars, ovars, svars, mvars, tvars, hvars, rvars,
                    lit_zone, lit_type, lit_value >>

LiteralNext == BuildLiteral

SpecLiteral == LiteralInit /\ [][LiteralNext]_vars

(***************************************************************************)
(* GuavaMariaDBETL.load, lines 82-123, called by the jobs that load into   *)
(* one target table.  Every command sent to the target can raise; line     *)
(* 121 re-raises.                                                          *)
(*   load_pc = "exists"    before the EXISTS TABLE query                   *)
(*   load_pc = "create"    before _create_table_if_not_exists              *)
(*   load_pc = "insert"    before target_client.insert                     *)
(*   load_pc = "optimize"  before OPTIMIZE TABLE ... FINAL                 *)
(*   load_pc = "count"     before SELECT count()                           *)
(***************************************************************************)
LoadInit ==
    /\ mdb_exists \in BOOLEAN
    /\ mdb_rows \in [Keys -> {0, 1}]
    /\ ~mdb_exists => mdb_rows = [k \in Keys |-> 0]
    /\ load_quota \in Quotas
    /\ LoadLocals
    /\ GuavaIdle
    /\ OSIdle
    /\ OrchIdle
    /\ SchemaIdle
    /\ LiteralIdle
    /\ TransformIdle
    /\ SharedIdle
    /\ RunsIdle

load_others == << gvars, osvars, ovars, svars, lvars, tvars, hvars, rvars,
                 load_quota >>

\* the command of the step was sent
Issued(j) == load_cmds' = [load_cmds EXCEPT ![j] = Append(@, load_pc[j])]

\* lines 84-86: load(data) is called; an empty batch returns at once
LoadCall(j) ==
    /\ load_pc[j] = "idle"
    /\ load_calls[j] < load_quota[j]
    /\ \E data \in SUBSET Keys :
         /\ load_data' = [load_data EXCEPT ![j] = data]
         /\ load_pc' = [load_pc EXCEPT ![j] = IF data = {} THEN "idle" ELSE "exists"]
    /\ load_calls' = [load_calls EXCEPT ![j] = @ + 1]
    /\ load_cmds' = [load_cmds EXCEPT ![j] = << >>]
    /\ load_error' = [load_error EXCEPT ![j] = "none"]
    /\ load_prev' = [load_prev EXCEPT ![j] =
                        [data |-> load_data[j], rows |-> mdb_rows,
                         count |-> load_count[j],
                         returned |-> /\ load_calls[j] >= 1
                                      /\ load_data[j] # {}
                                      /\ load_error[j] = "none"]]
    /\ UNCHANGED << load_others, mdb_exists, mdb_rows, load_count >>

\* lines 94-98: EXISTS TABLE; table_exists selects the next step
ExistsQuery(j) ==
    /\ load_pc[j] = "exists"
    /\ Issued(j)
    /\ load_pc' = [load_pc EXCEPT ![j] = IF mdb_exists THEN "insert" ELSE "create"]
    /\ UNCHANGED << load_others, load_prev, mdb_exists, mdb_rows, load_data, load_calls,
                    load_error, load_count >>

\* lines 168-180: CREATE TABLE (without IF NOT EXISTS) creates the table
CreateCommand(j) ==
    /\ load_pc[j] = "create"
    /\ ~mdb_exists
    /\ Issued(j)
    /\ mdb_exists' = TRUE
    /\ load_pc' = [load_pc EXCEPT ![j] = "insert"]
    /\ UNCHANGED << load_others, load_prev, mdb_rows, load_data, load_calls, load_error,
                    load_count >>

\* lines 105-109: the insert appends every row of the batch
InsertRows(j) ==
    /\ load_pc[j] = "insert"
    /\ mdb_exists
    /\ Issued(j)
    /\ mdb_rows' = [k \in Keys |-> mdb_rows[k] + IF k \in load_data[j] THEN 1 ELSE 0]
    /\ load_pc' = [load_pc EXCEPT ![j] = "optimize"]
    /\ UNCHANGED << load_others, load_prev, mdb_exists, load_data, load_calls, load_error,
                    load_count >>

OptimizeNoMerge(j) ==
    /\ load_pc[j] = "optimize"
    /\ Issued(j)
    /\ load_pc' = [load_pc EXCEPT ![j] = "count"]
    /\ UNCHANGED << load_others, load_prev, mdb_exists, mdb_rows, load_data,
                    load_calls, load_error, load_count >>

\* line 114: OPTIMIZE TABLE ... FINAL leaves one row of each key
OptimizeFinal(j) ==
    /\ load_pc[j] = "optimize"
    /\ Issued(j)
    /\ mdb_rows' = [k \in Keys |-> IF mdb_rows[k] > 0 THEN 1 ELSE 0]
    /\ load_pc' = [load_pc EXCEPT ![j] = "count"]
    /\ UNCHANGED << load_others, load_prev, mdb_exists, load_data, load_calls, load_error,
                    load_count >>

RECURSIVE SumRows(_, _)
SumRows(rows, k) == IF k = 0 THEN 0 ELSE rows[k] + SumRows(rows, k - 1)

\* lines 117-119: SELECT count(); load returns
CountRows(j) ==
    /\ load_pc[j] = "count"
    /\ Issued(j)
    /\ load_count' = [load_count EXCEPT ![j] = SumRows(mdb_rows, MaxKeys)]
    /\ load_pc' = [load_pc EXCEPT ![j] = "idle"]
    /\ UNCHANGED << load_others, load_prev, mdb_exists, mdb_rows, load_data, load_calls,
                    load_error >>

CommandRaisesSwallowed(j) ==
    /\ load_pc[j] = "insert"
    /\ mdb_exists
    /\ Issued(j)
    /\ load_error' = [load_error EXCEPT ![j] = load_pc[j]]
    /\ load_pc' = [load_pc EXCEPT ![j] = "optimize"]
    /\ UNCHANGED << load_others, load_prev, mdb_exists, mdb_rows, load_data, load_calls,
                    load_count >>

\* lines 121-123: the command of the step raises (a CREATE also because the
\* table exists by now); the exception is logged and re-raised
CommandRaises(j) ==
    /\ load_pc[j] # "idle"
    /\ Issued(j)
    /\ load_error' = [load_error EXCEPT ![j] = load_pc[j]]
    /\ load_pc' = [load_pc EXCEPT ![j] = "idle"]
    /\ UNCHANGED << load_others, load_prev, mdb_exists, mdb_rows, load_data, load_calls,
                    load_count >>

load(j) ==
    \/ LoadCall(j)
    \/ ExistsQuery(j)
    \/ CreateCommand(j)
    \/ InsertRows(j)
    \/ OptimizeFinal(j)
    \/ CountRows(j)
    \/ CommandRaises(j)

LoadNext == \E j \in Jobs : load(j)

SpecLoad == LoadInit /\ [][LoadNext]_vars

(***************************************************************************)
(* AppleMangoOpenSearchETL.transform, lines 208-259.  A column name is the *)
(* sequence of its characters; a cell is the record of its Python type and *)
(* the text of its value.                                                  *)
(***************************************************************************)
Cell(py, v) == [py |-> py, v |-> v]

Column(name, dtype, cells) == [name |-> name, dtype |-> dtype, cells |-> cells]

Range(s) == {s[i] : i \in DOMAIN s}

RECURSIVE replace(_, _, _)
\* str.replace(old, new) for a character old
replace(s, old, new) ==
    IF s = << >> THEN << >>
    ELSE (IF Head(s) = old THEN new ELSE << Head(s) >>) \o replace(Tail(s), old, new)

\* lines 214-222: the name a column is rewritten to
safe_name(col) ==
    IF col = << "@", "t", "i", "m", "e", "s", "t", "a", "m", "p" >>
    THEN << "o", "p", "e", "n", "s", "e", "a", "r", "c", "h", "_",
            "t", "i", "m", "e", "s", "t", "a", "m", "p" >>
    ELSE IF col = << "@", "m", "e", "t", "a", "d", "a", "t", "a" >>
    THEN << "o", "p", "e", "n", "s", "e", "a", "r", "c", "h", "_",
            "m", "e", "t", "a", "d", "a", "t", "a" >>
    ELSE IF col = << "@", "v", "e", "r", "s", "i", "o", "n" >>
    THEN << "o", "p", "e", "n", "s", "e", "a", "r", "c", "h", "_",
            "v", "e", "r", "s", "i", "o", "n" >>
    ELSE replace(replace(replace(col, ".", << "_" >>), "-", << "_" >>),
                 "@", << "a", "t", "_" >>)

RECURSIVE str(_)
\* the decimal digits of suffix in f"{new_col}_{suffix}"
str(n) ==
    LET digit == << "0", "1", "2", "3", "4", "5", "6", "7", "8", "9" >>
    IN  IF n < 10 THEN << digit[n + 1] >>
        ELSE str(n \div 10) \o << digit[(n % 10) + 1] >>

with_suffix(new_col, suffix) == new_col \o << "_" >> \o str(suffix)

RECURSIVE free_suffix(_, _, _)
\* lines 225-227: while f"{new_col}_{suffix}" in new_columns.values()
free_suffix(new_col, taken, suffix) ==
    IF with_suffix(new_col, suffix) \in taken
    THEN free_suffix(new_col, taken, suffix + 1)
    ELSE suffix

always_suffixed(new_col, taken) == with_suffix(new_col, free_suffix(new_col, taken, 1))

\* lines 224-228: the name assigned when the names in taken are assigned
disambiguate(new_col, taken) ==
    IF new_col \in taken
    THEN with_suffix(new_col, free_suffix(new_col, taken, 1))
    ELSE new_col

RECURSIVE new_columns(_, _)
\* lines 213-230: the names assigned to the first k columns, in column order
new_columns(cols, k) ==
    IF k = 0 THEN << >>
    ELSE LET before == new_columns(cols, k - 1)
         IN  Append(before, disambiguate(safe_name(cols[k]), Range(before)))

\* lines 241-247: safe_convert
safe_convert(x) ==
    IF x.v = "nan" \/ x.py = "NoneType" THEN Cell("NoneType", "None")
    ELSE IF x.py = "bool"
         THEN Cell("str", IF x.v = "True" THEN "true" ELSE "false")
    ELSE x

\* lines 234-251: one column after the loop over data.columns
convert_column(c) ==
    IF c.dtype = "datetime64[ns]" THEN c
    ELSE IF c.dtype = "bool"
         THEN Column(c.name, "object",
                     [i \in DOMAIN c.cells |->
                         Cell("str", IF c.cells[i].v = "True" THEN "true" ELSE "false")])
    ELSE IF c.dtype \in {"int64", "int32", "int16", "int8",
                          "uint64", "uint32", "uint16", "uint8"}
         THEN Column(c.name, c.dtype,
                     [i \in DOMAIN c.cells |->
                         IF c.cells[i].v = "nan" THEN Cell("int", "0") ELSE c.cells[i]])
    ELSE IF c.dtype \in {"float64", "float32"}
         THEN Column(c.name, c.dtype,
                     [i \in DOMAIN c.cells |->
                         IF c.cells[i].v = "nan" THEN Cell("float", "0.0")
                         ELSE c.cells[i]])
    ELSE IF c.dtype = "object"
         THEN Column(c.name, "object",
                     [i \in DOMAIN c.cells |-> safe_convert(c.cells[i])])
    ELSE c

\* len(data): the rows of the batch
len(data) == IF data = << >> THEN 0 ELSE Len(data[1].cells)

\* lines 208-259
transform(data) ==
    IF len(data) = 0 THEN data
    ELSE LET names == new_columns([k \in DOMAIN data |-> data[k].name], Len(data))
         IN  [k \in DOMAIN data |->
                 convert_column(Column(names[k], data[k].dtype, data[k].cells))]

(***************************************************************************)
(* transform called on a batch, and again on what it returned.             *)
(***************************************************************************)
MaxFields == 4

FieldNames ==
    { << "a", ".", "b" >>, << "a", "-", "b" >>, << "a", "_", "b" >>,
      << "a", ".", "b", ".", "1" >>, << "a", "-", "b", ".", "1" >>,
      << "@", "t", "i", "m", "e", "s", "t", "a", "m", "p" >>,
      << "@", "x" >> }

\* data.columns: distinct names
NameLists(max) ==
    {l \in UNION {[1..n -> FieldNames] : n \in 1..max} :
        \A i, j \in DOMAIN l : l[i] = l[j] => i = j}

\* a dtype and the cells of a column of that dtype, two rows
ColumnKinds ==
    { << "bool", << Cell("bool", "True"), Cell("bool", "False") >> >>,
      << "int64", << Cell("int", "1"), Cell("int", "0") >> >>,
      << "float64", << Cell("float", "nan"), Cell("float", "1.5") >> >>,
      << "object", << Cell("float", "nan"), Cell("bool", "True") >> >>,
      << "object", << Cell("NoneType", "None"), Cell("str", "s") >> >>,
      << "datetime64[ns]", << Cell("Timestamp", "t1"), Cell("Timestamp", "t2") >> >> }

FixedNames(n) ==
    SubSeq(<< << "a", ".", "b" >>, << "a", "-", "b" >>, << "@", "x" >>,
              << "a", "t", "_", "x" >>, << "a", "_", "b" >> >>, 1, n)

Frame(names, kinds, empty) ==
    [k \in DOMAIN names |->
        Column(names[k], kinds[k][1], IF empty THEN << >> ELSE kinds[k][2])]

\* the batch has columns of one kind under a list of names, or columns of
\* any kinds under fixed names
TransformInit ==
    /\ tf_pc = "call"
    /\ \E e \in BOOLEAN :
         \/ \E l \in NameLists(MaxFields), kd \in ColumnKinds :
               tf_data = Frame(l, [k \in DOMAIN l |-> kd], e)
         \/ \E n \in 1..Min(MaxFields, 5) :
               \E ks \in [1..n -> ColumnKinds] :
                  tf_data = Frame(FixedNames(n), ks, e)
    /\ tf_once = << >>
    /\ tf_twice = << >>
    /\ GuavaIdle
    /\ OSIdle
    /\ OrchIdle
    /\ SchemaIdle
    /\ LiteralIdle
    /\ LoadIdle
    /\ SharedIdle
    /\ RunsIdle

tf_others == << gvars, osvars, ovars, svars, lvars, mvars, hvars, rvars, tf_data >>

\* transform(data)
TransformOnce ==
    /\ tf_pc = "call"
    /\ tf_once' = transform(tf_data)
    /\ tf_pc' = "once"
    /\ UNCHANGED << tf_others, tf_twice >>

\* transform applied to the batch it returned
TransformTwice ==
    /\ tf_pc = "once"
    /\ tf_twice' = transform(tf_once)
    /\ tf_pc' = "twice"
    /\ UNCHANGED << tf_others, tf_once >>

TransformNext == TransformOnce \/ TransformTwice

SpecTransform == TransformInit /\ [][TransformNext]_vars

(***************************************************************************)
(* Runs of GuavaClickHouseETL.run, one after the other, on one table.      *)
(* Each run is made by a new object (guava_clickhouse_dag.py builds one    *)
(* per task run); the target keeps its rows, the source may have gained a  *)
(* row.  Within a run the source reads in one order, so the pages of       *)
(* different offsets share no row.  The ordering values of the source      *)
(* start at 1 or, as an Int64 column allows, at 0.                         *)
(***************************************************************************)
MaxRuns == 2

\* The first run starts on a target without rows; the small tables are read
\* in pages of two rows, the big one under the cap BigCap.
RunsInit ==
    /\ GuavaInit
    /\ dest = {}
    /\ IF src_n <= SmallRows THEN batch_size = 2 ELSE max_rows = BigCap
    /\ run_no = 1
    /\ run_dest0 = dest
    /\ run_order \in ReadOrders
    /\ src_first \in {0, 1}
    /\ OSIdle
    /\ OrchIdle
    /\ SchemaIdle
    /\ LiteralIdle
    /\ LoadIdle
    /\ TransformIdle
    /\ SharedIdle

\* rows appended to the source between two runs
Grown(n) == IF n < SmallRows THEN {n, n + 1} ELSE {n}

\* the step is a page query that returns
PageReturned ==
    /\ src_queries' = src_queries + 1
    /\ \/ pc \in {"loop", "retry"} /\ pc' = "got"
       \/ pc \in {"loop", "retry"} /\ pc' = "done" /\ outcome' = "completed"
       \/ pc = "halved" /\ pc' = "retry"

\* every page of the run is read in the order of the run
StableSource ==
    PageReturned
    => df_batch' = PageRows(where_clause, src_n, src_dup, query_limit', offset,
                            run_order)

\* the next task run: GuavaClickHouseETL(...) and run() on the same table;
\* the runs followed are those whose watermark lookup did not raise
NextRun ==
    /\ pc = "done"
    /\ "lookup" \notin events
    /\ run_no < MaxRuns
    /\ run_no' = run_no + 1
    /\ run_dest0' = dest
    /\ run_order' \in ReadOrders
    /\ src_n' \in Grown(src_n)
    /\ batch_size' = batch_size0
    /\ pc' = "init"
    /\ last_value' = None
    /\ where_clause' = EmptyClause
    /\ total_rows' = 0
    /\ offset' = 0
    /\ batch_num' = 0
    /\ total_processed' = 0
    /\ consecutive_failures' = 0
    /\ current_batch_size' = 0
    /\ query_limit' = 0
    /\ df_batch' = {}
    /\ inserted' = 0
    /\ src_queries' = 0
    /\ events' = {}
    /\ fail_streak' = 0
    /\ outcome' = "running"
    /\ source_client' = "none"
    /\ target_client' = "none"
    /\ UNCHANGED << osvars, ovars, svars, lvars, mvars, tvars, hvars, table_type,
                    max_rows, src_dup, batch_size0, target_exists, dest,
                    src_first >>

RunsNext ==
    \/ run /\ StableSource
    \/ NextRun

SpecRuns == RunsInit /\ [][RunsNext]_vars

(***************************************************************************)
(* AppleMangoOpenSearchETL.run, lines 40-52, over two indices that         *)
(* _process_single_index sends to the table perfhist_sms (lines 84-85).    *)
(* Document i of index x                                                   *)
(* carries the timestamp i + shift of its index.                           *)
(***************************************************************************)
MaxShift == 2

DocTs(d) == d[2] + sh_docs[d[1]].shift

Docs(x) == {<< x, i >> : i \in 1..sh_docs[x].n}

\* the opensearch_timestamp column of the rows of a table
TimestampsOf(rows) == {DocTs(d) : d \in rows}

DocMatches(q, d) == q.empty \/ DocTs(d) > q.lit.v

\* results: the first max_rows_per_index hits in ascending timestamp order
FirstHits(q, x) ==
    LET matched == {d \in Docs(x) : DocMatches(q, d)}
    IN  {d \in matched : Cardinality({e \in matched : e[2] < d[2]}) < sh_cap}

SharedInit ==
    /\ sh_docs \in [SharedIndices -> [n : 0..SmallDocs, shift : 0..MaxShift]]
    /\ sh_cap \in {SmallCap, DefaultMaxRowsPerIndex}
    /\ sh_exists \in BOOLEAN
    /\ sh_table = {}
    /\ sh_i = 1
    /\ sh_step = "extract"
    /\ sh_data = {}
    /\ sh_query = NoQuery
    /\ sh_before = NoRows
    /\ GuavaIdle
    /\ OSIdle
    /\ OrchIdle
    /\ SchemaIdle
    /\ LiteralIdle
    /\ LoadIdle
    /\ TransformIdle
    /\ RunsIdle

sh_others == << gvars, osvars, ovars, svars, lvars, mvars, tvars, rvars, sh_docs,
               sh_cap >>

\* for index_name in indices: the next index, or the end of the loop
NextIndex ==
    /\ sh_i' = sh_i + 1
    /\ sh_step' = IF sh_i + 1 \in SharedIndices THEN "extract" ELSE "done"

\* _extract_from_index(index_name, target_table) and the test of line 93
SharedExtract ==
    /\ sh_step = "extract"
    /\ LET last == os_get_last_timestamp(sh_exists, TimestampsOf(sh_table), 1)
            q == extract_query(last)
            data == FirstHits(q, sh_i)
       IN  /\ sh_query' = [sh_query EXCEPT ![sh_i] = q]
           /\ sh_before' = [sh_before EXCEPT ![sh_i] = sh_table]
           /\ IF Cardinality(data) = 0
              THEN NextIndex /\ sh_data' = {}
              ELSE sh_step' = "load" /\ sh_data' = data /\ sh_i' = sh_i
    /\ UNCHANGED << sh_others, sh_exists, sh_table >>

\* _load_to_table(data_transformed, target_table): the table is created when
\* missing and the rows are inserted
SharedLoad ==
    /\ sh_step = "load"
    /\ sh_exists' = TRUE
    /\ sh_table' = sh_table \cup sh_data
    /\ sh_data' = {}
    /\ NextIndex
    /\ UNCHANGED << sh_others, sh_query, sh_before >>

\* lines 48-52: a call of the processing raises and the loop continues
SharedRaises ==
    /\ sh_step \in {"extract", "load"}
    /\ sh_data' = {}
    /\ NextIndex
    /\ UNCHANGED << sh_others, sh_exists, sh_table, sh_query, sh_before >>

SharedNext == SharedExtract \/ SharedLoad \/ SharedRaises

SpecShared == SharedInit /\ [][SharedNext]_vars

(***************************************************************************)
(* Claims.                                                                 *)
(***************************************************************************)

\* C1: in one run of GuavaClickHouseETL the rows passed to insert_df, over all
\* pages and whatever queries, transforms or loads fail, never exceed max_rows.
C1_InsertedWithinMaxRows == inserted <= max_rows

\* C1 witness: a run over more matching rows than max_rows has ended after
\* passing exactly max_rows rows to insert_df.
C1_Witness ==
    /\ pc = "done"
    /\ src_n > max_rows
    /\ inserted = max_rows

\* C2: the documents _extract_from_index has collected for one index never
\* exceed max_rows_per_index.
C2_ResultsWithinCap == Len(results) <= max_rows_per_index

\* C3: after a run in which nothing failed, every source row whose ordering
\* value is at most the target's maximum ordering value is in the target.
C3_NoRowBelowWatermarkMissing ==
    (pc = "done" /\ outcome \in {"completed", "nodata"} /\ events = {}
        /\ dest # {})
    => LET top == MaxTs(dest, src_dup)
       IN  \A i \in 1..src_n : Ts(i, src_dup) <= top => i \in dest

\* C4: a document left unloaded because the cap truncated the extraction, or
\* because a write-chunk failed after earlier chunks were appended, is selected
\* by the range filter the next processing of the index builds.
NextQuery == extract_query(os_get_last_timestamp(os_exists, os_dest, idx_dup))

CapTruncated ==
    /\ os_outcome = "loaded"
    /\ os_events = {}
    /\ Len(results) < Cardinality(Matching(os_query, idx_n, idx_dup))

ChunkFailedLate ==
    /\ os_outcome = "failed"
    /\ os_events = {"load"}
    /\ chunk_i > 0

C4_UnloadedSelectedNext ==
    (os_pc = "done" /\ (CapTruncated \/ ChunkFailedLate))
    => LET next == NextQuery
       IN  \A i \in (1..idx_n) \ os_dest : RowMatches(next, i, idx_dup)

\* C5: when a non-absent watermark was resolved and _build_where_clause gives
\* no predicate, run() has skipped the table: no source query was issued and
\* nothing was passed to insert_df.
C5_FilterFailureSkips ==
    (pc \notin {"idle", "where"} /\ Truthy(last_value)
        /\ build_where_clause(table_type, last_value).empty)
    => (pc = "done" /\ outcome = "skipped" /\ src_queries = 0 /\ inserted = 0)

\* C5 witness: an Int64 table whose watermark arrived as a string that does not
\* match the pattern was skipped.
C5_Witness ==
    /\ outcome = "skipped"
    /\ table_type = "Int64"
    /\ last_value.kind = "str"
    /\ last_value.form = "malformed"
    /\ src_n > 0

\* C6: while the target table is absent or empty, the resolved watermark is
\* None, the filter built from it is the empty predicate, and it selects every
\* source row (both engines).
C6_AbsentGivesFullResync ==
    /\ (pc \notin {"idle", "init", "resolve"} /\ (~target_exists \/ dest = {}))
       => /\ last_value = None
          /\ pc # "where" =>
               /\ where_clause = EmptyClause
               /\ Matching(where_clause, src_n, src_dup) = 1..src_n
    /\ (os_pc \notin {"idle", "start"} /\ (~os_exists \/ os_dest = {}))
       => /\ last_timestamp = None
          /\ os_query = EmptyClause
          /\ Matching(os_query, idx_n, idx_dup) = 1..idx_n

\* C6 witness: the run on an empty existing target has counted all the rows of
\* a non-empty source and is about to page through them.
C6_Witness ==
    /\ pc = "loop"
    /\ batch_num = 0
    /\ target_exists
    /\ dest = {}
    /\ events = {}
    /\ src_n > 0
    /\ total_rows = Capped(src_n, max_rows)

\* C7: when a target query of _get_last_timestamp raised, the watermark is
\* None, the filter is the empty predicate, and the run went on: it is neither
\* skipped nor ended by that exception (both engines).
C7_LookupFailureIsAbsent ==
    /\ "lookup" \in events
       => /\ last_value = None
          /\ outcome # "skipped"
          /\ pc # "where" => where_clause = EmptyClause
          /\ outcome = "raised" => "count" \in events
    /\ "lookup" \in os_events
       => /\ last_timestamp = None
          /\ os_query = EmptyClause
          /\ os_outcome = "failed"
               => os_events \cap {"extract", "create", "load"} # {}

\* C7 witness: the lookup raised on a non-empty target and the run is paging
\* through the unfiltered source.
C7_Witness ==
    /\ "lookup" \in events
    /\ dest # {}
    /\ pc = "loop"
    /\ where_clause = EmptyClause
    /\ total_rows > Cardinality(dest)

\* C8: once three pages in a row have failed to extract, whatever the errors,
\* no further page query is issued.
C8_StopsAfterThreeFailedPages ==
    fail_streak >= max_consecutive_failures
    => ~(pc = "loop" /\ offset < total_rows)

\* C9: _process_batches terminates, in particular when every page query
\* raises a memory-limit error, and no step removes a row from the target.
C9_Terminates ==
    /\ <>(pc \in {"idle", "done"})
    /\ [][dest \subseteq dest']_vars

\* C9 witness: a run in which every page query raised (the full-size ones a
\* memory-limit error, the halved retries too) has ended with nothing loaded.
C9_Witness ==
    /\ pc = "done"
    /\ events = {"memory"}
    /\ inserted = 0
    /\ batch_size0 = DefaultBatchSize
    /\ batch_size = batch_size0
    /\ src_queries >= 5

\* C10: for a run started with batch_size >= 100, self.batch_size stays >= 100
\* and no halved retry query has a LIMIT below 100.
C10_PageSizeFloor ==
    batch_size0 >= MinBatchSize
    => /\ batch_size >= MinBatchSize
       /\ pc = "halved" => query_limit >= MinBatchSize

\* C11: once the halved query issued after a memory-limit error has succeeded
\* (control is past line 250 with consecutive_failures reset, the only way to
\* reach the retry with no failure counted), the source is not queried again
\* for that offset.
C11_HalvedQueryIssuedOnce ==
    [][(pc = "retry" /\ consecutive_failures = 0)
         => src_queries' = src_queries]_vars

\* C12: in a run whose page size is at or below the floor from the start, a
\* memory-limit error of a page query ends the extraction: no further page
\* query is issued.
C12_StopsAtFloor ==
    (batch_size0 <= MinBatchSize /\ "memory" \in events)
    => ~(pc = "loop" /\ offset < total_rows)

\* C13: the step that loads an extracted page advances the offset by the
\* number of rows the source returned for that page.
C13_OffsetAdvancesByReturned ==
    [][(pc = "load" /\ total_processed' > total_processed)
         => offset' = offset + Cardinality(df_batch)]_vars

\* C14: a run that entered _process_batches and stopped after consecutive
\* extraction failures, or had failing pages, has ended without an exception
\* leaving run(), and with both clients closed.
PageFailures == {"memory", "error", "transform", "load"}

C14_PartialRunReturns ==
    (pc = "done" /\ total_rows > 0
        /\ (outcome = "stopped" \/ events \cap PageFailures # {}))
    => /\ outcome \in {"stopped", "completed"}
       /\ source_client = "closed"
       /\ target_client = "closed"

\* C14 witness: _process_batches loaded a page, then stopped after three
\* consecutive failed page queries, and run() has returned.
C14_Witness ==
    /\ pc = "done"
    /\ outcome = "stopped"
    /\ events = {"error"}
    /\ consecutive_failures = max_consecutive_failures
    /\ dest # {}
    /\ total_processed > 0
    /\ source_client = "closed"
    /\ target_client = "closed"

\* C15: the step in which the insert of a page raises (the page was at the
\* load and is not counted as processed) issues no source query, leaves the
\* target and the consecutive-failure counter alone, advances the offset by
\* the LIMIT of the page and goes back to the loop test.
C15_LoadFailureSkipsPage ==
    [][(pc = "load" /\ total_processed' = total_processed)
         => /\ pc' = "loop"
            /\ offset' = offset + current_batch_size
            /\ current_batch_size = query_limit
            /\ consecutive_failures' = consecutive_failures
            /\ src_queries' = src_queries
            /\ dest' = dest]_vars

\* C15 witness: the insert of the first page raised after an extraction
\* failure had been counted, and the loop is about to query the next page.
C15_Witness ==
    /\ pc = "loop"
    /\ offset < total_rows
    /\ events = {"error", "load"}
    /\ batch_num = 1
    /\ offset = current_batch_size
    /\ consecutive_failures = 0
    /\ total_processed = 0
    /\ inserted > 0

\* C16: whichever objects' processing raises, the loop calls the processing
\* of the objects in list order, each once, and when the loop has ended every
\* object of the list has been processed (run_all_etl and the index loop).
C16_EveryObjectProcessedOnce ==
    /\ orch_pc # "idle" => processed = SubSeq(objects, 1, obj_i - 1)
    /\ orch_pc = "done" => processed = objects

\* C16 witness: run_all_etl has ended after the processing of its first
\* object and of a later one raised, with objects that did not raise.
C16_Witness ==
    /\ orch_loop = "run_all_etl"
    /\ orch_pc = "done"
    /\ 1 \in raised
    /\ Cardinality(raised) >= 2
    /\ Len(objects) > Cardinality(raised)
    /\ processed = objects

\* C17: when a job calls the reconciliation (create, then add missing columns)
\* a second time with the batch of its previous call, no other job touching
\* the table and the previous call having met no failed command, the second
\* call issues no ALTER and the schema stays what it was after the first call;
\* and no call is ever left by an error saying that the table or a column
\* already exists.
C17_ReconcileTwiceSameSchema ==
    \A j \in Jobs :
        /\ job_error[j] \notin {"already exists", "table already exists"}
        /\ (/\ job_loads[j] >= 2
            /\ job_df[j] = prev_df[j]
            /\ prev_clean[j]
            /\ \A o \in Jobs \ {j} : job_loads[o] = 0)
           => /\ tbl_columns = prev_columns[j]
              /\ job_attempted[j] = {}
              /\ job_error[j] \notin {"other", "unrecognized column"}

\* C17 witness: job 1, alone, has reconciled a second time with the same
\* batch against a table that holds more columns than the batch.
C17_Witness ==
    /\ job_loads[1] = 2
    /\ job_pc[1] = "insert"
    /\ job_error[1] = "none"
    /\ job_df[1] = prev_df[1]
    /\ prev_clean[1]
    /\ job_quota[2] = 0
    /\ Len(tbl_columns) > Cardinality(DOMAIN job_df[1])

\* C18: no step removes a column of the existing table, moves it or changes
\* its declared type: the schema before the step is a prefix of the schema
\* after it.
C18_SchemaOnlyGrows ==
    [][tbl_exists
         => /\ tbl_exists'
            /\ Len(tbl_columns') >= Len(tbl_columns)
            /\ \A k \in DOMAIN tbl_columns : tbl_columns'[k] = tbl_columns[k]]_vars

\* C18 witness: the second call of job 1 has reconciled a batch that infers
\* object for column a, which the table declares as Nullable(Int64).
C18_Witness ==
    /\ job_loads[1] = 2
    /\ job_pc[1] = "insert"
    /\ "a" \in DOMAIN job_df[1]
    /\ job_df[1]["a"] = "object"
    /\ \E k \in DOMAIN tbl_columns :
         tbl_columns[k] = [name |-> "a", type |-> Nullable("Int64")]

\* C19: no call is left by the error of an ALTER, no column name occurs twice
\* in the schema, and a call that is past its loop over the missing columns
\* with no ALTER failed for another reason finds every column of its batch in
\* the schema, whichever job added it.
C19_AddColumnRaceTolerated ==
    /\ \A j \in Jobs : job_error[j] \notin {"already exists", "other"}
    /\ \A k1, k2 \in DOMAIN tbl_columns :
          tbl_columns[k1].name = tbl_columns[k2].name => k1 = k2
    /\ \A j \in Jobs :
          (job_pc[j] = "insert" /\ job_failed[j] = {})
          => DOMAIN job_df[j] \subseteq ColumnNames(tbl_columns)

\* C19 witness: both jobs found column a missing and issued the ALTER for it;
\* job 2 was answered "already exists"; both calls are past the loop and
\* neither has raised.
C19_Witness ==
    /\ job_pc[1] = "insert"
    /\ job_pc[2] = "insert"
    /\ "a" \in job_attempted[1]
    /\ job_exists[1] = {}
    /\ job_exists[2] = {"a"}
    /\ job_failed[1] = {}
    /\ job_failed[2] = {}
    /\ job_error[1] = "none"
    /\ job_error[2] = "none"

\* C20: in a call in which an ALTER failed for a reason other than "already
\* exists", that error does not leave the call, the loop visits the remaining
\* missing columns, and the insert of the batch does not end the call with an
\* error about a column the table does not have.
C20_FailedAddColumnKeepsLoad ==
    \A j \in Jobs :
        job_failed[j] # {}
        => /\ job_error[j] # "other"
           /\ job_pc[j] # "alter" => job_missing[j] = {}
           /\ job_error[j] # "unrecognized column"

C22_LoadsMinOfMatchingAndCap ==
    (pc = "done" /\ outcome \in {"completed", "nodata"} /\ events = {})
    => LET N == Cardinality(Matching(where_clause, src_n, src_dup))
       IN  /\ inserted = Min(N, max_rows)
           /\ total_processed = inserted

\* C22 witness: a failure-free run over BigRows matching rows with the cap
\* BigCap, read in pages of MinBatchSize rows, has ended with BigCap rows
\* loaded in more than one page.
C22_Witness ==
    /\ pc = "done"
    /\ outcome = "completed"
    /\ events = {}
    /\ src_n = BigRows
    /\ max_rows = BigCap
    /\ batch_size0 = MinBatchSize
    /\ batch_num = 2
    /\ inserted = BigCap

\* C23: in a run that resolved a watermark W from the target, every row read
\* from the source has an ordering value greater than W; and when the run has
\* ended with no failure and the cap did not truncate it, the target holds
\* every source row whose ordering value is greater than W.  The same for the
\* documents of an index.
C23_LoadsExactlyNewerRows ==
    /\ (Truthy(last_value) /\ pc \in {"got", "load"})
       => \A i \in df_batch : Ts(i, src_dup) > last_value.v
    /\ (Truthy(last_value) /\ pc = "done" /\ outcome \in {"completed", "nodata"}
           /\ events = {})
       => LET newer == {i \in 1..src_n : Ts(i, src_dup) > last_value.v}
          IN  Cardinality(newer) <= max_rows => newer \subseteq dest
    /\ Truthy(last_timestamp)
       => \A k \in DOMAIN results : Ts(results[k], idx_dup) > last_timestamp.v
    /\ (Truthy(last_timestamp) /\ os_pc = "done"
           /\ os_outcome \in {"loaded", "nodata"} /\ os_events = {})
       => LET newer == {i \in 1..idx_n : Ts(i, idx_dup) > last_timestamp.v}
          IN  Cardinality(newer) <= max_rows_per_index => newer \subseteq os_dest

\* The position (an integer of nanoseconds since the epoch) a watermark value
\* denotes: an integer itself, a string with a suffix the instant at that UTC
\* offset, a string without one the instant in the zone that rendered it.
TzHours(tz) ==
    CASE tz = "+09:00" -> 9
      [] tz = "+01:00" -> 1
      [] tz = "-01:00" -> -1
      [] tz = "" -> lit_zone
      [] OTHER -> 0

ValuePosition(last) ==
    IF last.kind = "int" THEN last.n
    ELSE Nanos((last.wall - TzHours(last.tz)) * 3600,
               pad_nanos(last.digits, last.frac))

\* The position the literal of the clause denotes to the source server.
LiteralPosition(lit) == ValuePosition(lit)

C25_MergeAfterInsertCountAfterMerge ==
    \A j \in Jobs :
        LET cmds == load_cmds[j]
        IN  /\ \A k \in DOMAIN cmds :
                  /\ cmds[k] = "optimize" => (k > 1 /\ cmds[k - 1] = "insert")
                  /\ cmds[k] = "count" => (k > 1 /\ cmds[k - 1] = "optimize")
            /\ load_error[j] # "none"
               => /\ load_pc[j] = "idle"
                  /\ cmds # << >>
                  /\ cmds[Len(cmds)] = load_error[j]

\* C25 witness: the call of job 1 has created the table, inserted, merged and
\* counted; the insert of job 2's call raised and the call has ended.
C25_Witness ==
    /\ load_cmds[1] = << "exists", "create", "insert", "optimize", "count" >>
    /\ load_error[1] = "none"
    /\ load_pc[1] = "idle"
    /\ load_cmds[2] = << "exists", "insert" >>
    /\ load_error[2] = "insert"
    /\ load_pc[2] = "idle"

\* C26: the query of a new page is issued only from the head of the loop,
\* where no page is held; while a page is held (extracted, or transformed and
\* waiting for its load) no source query is issued; a page enters its load
\* only from a transform that returned; and rows are passed to insert_df only
\* in the load step.
C26_PipelineOrder ==
    [][/\ batch_num' # batch_num => pc = "loop"
       /\ pc \in {"got", "load"} => src_queries' = src_queries
       /\ (pc' = "load" /\ pc # "load") => pc = "got"
       /\ (inserted' # inserted \/ dest' # dest) => pc = "load"
       /\ (pc \in {"got", "load"} /\ pc' \notin {"got", "load"})
          => pc' \in {"loop", "done"}]_vars

\* C26 witness: the second page of a run has been transformed and waits for
\* its load, the first page being in the target.
C26_Witness ==
    /\ pc = "load"
    /\ batch_num = 2
    /\ events = {}
    /\ inserted > 0
    /\ inserted = total_processed
    /\ df_batch # {}

\* C27: last_value is assigned only by the lookup at the start of run() and
\* where_clause only by the filter builder that follows it; no page is
\* extracted before; and the count and every page of the run are answered for
\* the clause built from that one value, whatever the target has gained.
C27_WatermarkReadOnce ==
    [][/\ last_value' # last_value => (pc = "resolve" /\ src_queries = 0)
       /\ where_clause' # where_clause => (pc = "where" /\ src_queries = 0)
       /\ src_queries' # src_queries
          => /\ pc \notin {"resolve", "where"}
             /\ where_clause = build_where_clause(table_type, last_value)
             /\ (pc = "count" /\ pc' = "loop")
                => total_rows' = Capped(Cardinality(Matching(where_clause, src_n,
                                                             src_dup)), max_rows)
             /\ (pc # "count" /\ pc' = "got")
                => df_batch' \subseteq Matching(where_clause, src_n, src_dup)]_vars

\* C27 witness: a run that resolved a watermark is at its third page; the
\* pages it loaded have raised the maximum of the target above the watermark
\* its clause still carries.
C27_Witness ==
    /\ pc = "got"
    /\ batch_num = 3
    /\ Truthy(last_value)
    /\ where_clause = Gt(IntVal(last_value.v))
    /\ MaxTs(dest, src_dup) > last_value.v

\* C28: transform applied to the batch it returned gives that batch again,
\* column names and cells; and what it returns is a function of its input.
C28_TransformIdempotent ==
    /\ tf_pc \in {"once", "twice"} => tf_once = transform(tf_data)
    /\ tf_pc = "twice" => tf_twice = tf_once

\* C28 witness: a batch of bool columns, one of which was renamed with a
\* suffix, was transformed twice.
C28_Witness ==
    /\ tf_pc = "twice"
    /\ tf_once # tf_data
    /\ \E k \in DOMAIN tf_data :
          /\ tf_data[k].dtype = "bool"
          /\ tf_data[k].cells # << >>
          /\ tf_once[k].name = << "a", "_", "b", "_", "1" >>
          /\ tf_once[k].cells[1] = Cell("str", "true")

\* C29: the names transform assigns to distinct source names are pairwise
\* distinct; of the columns whose names rewrite to one safe name, the first in
\* column order is assigned that name and each later one the name with the
\* smallest numeric suffix not assigned before it.
C29_RenameCollisions ==
    (tf_pc # "call" /\ len(tf_data) > 0)
    => /\ \A i, j \in DOMAIN tf_once : tf_once[i].name = tf_once[j].name => i = j
       /\ \A k \in DOMAIN tf_data :
             LET S == safe_name(tf_data[k].name)
                 G == {i \in DOMAIN tf_data : safe_name(tf_data[i].name) = S}
                 before == {tf_once[i].name : i \in 1..(k - 1)}
             IN  Cardinality(G) >= 2
                 => IF \A i \in G : k <= i
                    THEN tf_once[k].name = S
                    ELSE \E n \in 1..Len(tf_data) :
                            /\ tf_once[k].name = with_suffix(S, n)
                            /\ \A m \in 1..(n - 1) : with_suffix(S, m) \in before

\* C30: a first page query that fails with an error other than a memory-limit
\* error (the failure is counted, the offset kept and no halved query
\* prepared) is followed by the retry of that query; the retry is one query at
\* the same offset; and a retry that succeeds leaves no failure counted.
C30_SingleRetryOfTransientErrors ==
    [][/\ (/\ pc = "loop"
           /\ batch_num' = batch_num + 1
           /\ consecutive_failures' = consecutive_failures + 1
           /\ offset' = offset
           /\ pc' # "halved")
          => pc' = "retry"
       /\ pc = "retry"
          => /\ src_queries' = src_queries + 1
             /\ pc' \in {"got", "loop", "done"}
             /\ pc' = "got" => (offset' = offset /\ consecutive_failures' = 0)]_vars

\* C31: when the halved query that follows a memory-limit error raises too,
\* the offset advances by the halved size, the run goes on at the head of the
\* loop and self.batch_size keeps its value; self.batch_size changes only in
\* the step in which a halved query returns, and then to a smaller value.
C31_SkipForwardAfterFailedHalving ==
    [][/\ (pc = "halved" /\ pc' # "retry")
          => /\ current_batch_size > MinBatchSize
             /\ offset' = offset + (current_batch_size \div 2)
             /\ pc' = "loop"
             /\ outcome' = outcome
             /\ batch_size' = batch_size
       /\ batch_size' # batch_size
          => /\ pc = "halved"
             /\ pc' = "retry"
             /\ batch_size' < batch_size
             /\ df_batch' # {}]_vars

\* C31 witness: the first page query and its halved query both raised a
\* memory-limit error; the second page was then read at the offset of the
\* halved size, with self.batch_size as constructed.
C31_Witness ==
    /\ pc = "got"
    /\ batch_num = 2
    /\ events = {"memory"}
    /\ batch_size0 = DefaultBatchSize
    /\ batch_size = batch_size0
    /\ offset > 0
    /\ offset = Min(batch_size0, total_rows) \div 2
    /\ inserted = 0

\* C32: of two calls of GuavaMariaDBETL.load on a table that does not exist,
\* neither sends its CREATE TABLE to a target in which the table exists by
\* then, where the command can only raise and the exception leaves the call.
C32_ConcurrentCreateSafe ==
    \A j \in Jobs : load_pc[j] = "create" => ~mdb_exists

\* C33: when two indices are sent to one target table, every document of an
\* index that was not in the table when the index was processed is selected by
\* the query of that index, whatever was loaded from the other index.
C33_SharedTableSelectsUnloaded ==
    \A x \in SharedIndices :
        (sh_i > x \/ (sh_i = x /\ sh_step = "load"))
        => \A d \in Docs(x) : d \notin sh_before[x] => DocMatches(sh_query[x], d)

\* C35: in _process_batches the consecutive-failure counter is 0 right after
\* every page query that returned (first attempt, halved query or retry); it
\* changes otherwise only by one, when a first attempt raises; so a run is
\* stopped only by a raising first attempt that is at least the third since
\* the last page query that returned.
C35_CounterResetOnExtraction ==
    [][/\ PageReturned => consecutive_failures' = 0
       /\ (pc \in {"loop", "halved", "retry"}
           /\ consecutive_failures' # consecutive_failures)
          => \/ PageReturned
             \/ /\ pc = "loop"
                /\ pc' \in {"halved", "retry", "loop", "done"}
                /\ pc' = "done" => outcome' = "stopped"
                /\ consecutive_failures' = consecutive_failures + 1
       /\ (outcome' = "stopped" /\ outcome # "stopped")
          => /\ consecutive_failures' = consecutive_failures + 1
             /\ consecutive_failures' >= max_consecutive_failures]_vars

\* C35 witness: two first attempts raised, the retry of the second returned a
\* page and reset the counter, and a later first attempt raised again: the
\* run goes on with the counter at 1, not 3.
C35_Witness ==
    /\ pc = "retry"
    /\ consecutive_failures = 1
    /\ batch_num >= 3
    /\ inserted > 0
    /\ events = {"error"}

\* C36: whichever way run() of GuavaClickHouseETL ends (completion, skip after
\* a filter that could not be built, no new rows, stop after consecutive
\* failures, or an exception that is re-raised), close has been called on
\* every client that was opened, and the outcome is the one of the exit path:
\* the finally block changes nothing but the clients.
C36_ExitOutcome ==
    IF pc = "init" THEN "raised"
    ELSE IF pc = "where" THEN "skipped"
    ELSE IF pc = "count"
         THEN (IF src_queries' > src_queries /\ total_rows' = 0 /\ events' = events
               THEN "nodata" ELSE "raised")
    ELSE IF consecutive_failures' > consecutive_failures THEN "stopped"
    ELSE "completed"

C36_ClientsClosedOnExit ==
    /\ [](pc = "done" => /\ source_client \in {"none", "closed"}
                         /\ target_client \in {"none", "closed"}
                         /\ outcome # "running")
    /\ [][(pc # "done" /\ pc' = "done")
            => /\ source_client = "open" => source_client' = "closed"
               /\ target_client = "open" => target_client' = "closed"
               /\ pc # "init" => source_client = "open" /\ target_client = "open"
               /\ outcome' = C36_ExitOutcome]_vars

\* C36 witness: the count query raised after both clients were opened; the
\* exception left run() and both clients are closed.
C36_Witness ==
    /\ pc = "done"
    /\ outcome = "raised"
    /\ events = {"count"}
    /\ source_client = "closed"
    /\ target_client = "closed"

\* C34: over runs of GuavaClickHouseETL on one table in which no watermark
\* lookup raises, against a source that returns no row in two pages of one
\* run, no run passes to insert_df a row that the target already holds, be it
\* from an earlier run or from an earlier page of the run.
C34_NoDuplicateLoads ==
    [][(pc = "load" /\ inserted' > inserted /\ "lookup" \notin events)
         => df_batch \cap dest = {}]_vars

\* C37: when GuavaMariaDBETL.load is called twice in a row with the same rows
\* (distinct primary-key values, no other job at work) and both calls return,
\* the table holds after the second call's merge the rows, and the count
\* reports the number, it held after the first call.
C37_RerunIdempotent ==
    (/\ load_quota[2] = 0
     /\ load_pc[1] = "idle"
     /\ load_calls[1] >= 2
     /\ load_error[1] = "none"
     /\ load_prev[1].returned
     /\ load_data[1] = load_prev[1].data)
    => /\ mdb_rows = load_prev[1].rows
       /\ load_count[1] = load_prev[1].count

\* C37 witness: the second call with the same two rows has returned; the first
\* call had created the table.
C37_Witness ==
    /\ load_quota[2] = 0
    /\ load_pc[1] = "idle"
    /\ load_calls[1] = 2
    /\ load_error[1] = "none"
    /\ load_prev[1].returned
    /\ load_data[1] = load_prev[1].data
    /\ Cardinality(load_data[1]) >= 2
    /\ load_cmds[1] = << "exists", "insert", "optimize", "count" >>
    /\ load_count[1] = Cardinality(load_data[1])

====
